---- MODULE Spec2Model ----
(***************************************************************************)
(* A model of the FashionDeck ML service (apps/ml-service/app):            *)
(*   - utils/retry.py            the retry/backoff wrapper                  *)
(*   - services/parse_service.py prompt parsing, its cache and its fallback *)
(*   - services/plan_service.py  outfit planning, its cache and fallback    *)
(*   - services/score_service.py outfit scoring                             *)
(*   - services/similarity_service.py, routes/similarity.py  product search *)
(*     and outfit coherence                                                 *)
(*   - main.py, embeddings/clip_service.py  model loading and encoding      *)
(*   - services/embed_service.py, services/db_service.py  embedding sweep   *)
(*   - services/aesthetic_service.py  nearest precomputed aesthetic         *)
(*   - routes/embed.py  process_product and the backlog sweep               *)
(*   - the service accessors (get_*_service) and the shared store cursor    *)
(* Strings are sequences of one-character strings, so that lower(),        *)
(* strip(), substring tests and joins are computed and not assumed.        *)
(* Floats of the retry policy are exact rationals [num, den].              *)
(***************************************************************************)
EXTENDS Integers, Sequences, FiniteSets, TLC

VARIABLES
    config, rpc, attempt, last_exception, outcomes, trace, backoffs,
    backoff_delay, final_delay, result,
    fbPrompt, fbResult,
    redis_client, redis, reqs,
    planA, planB, keyA, keyB,
    plan_redis_client, plan_redis, plans, fpQuery, fpPlan,
    scN, scPc, scResponse, scScores, scRaised,
    srRequest, srTable, srPc, srTarget, srResult, srRaised, srStatus, srLog,
    chEmbeddings, chScore,
    clPhase, clModel, clLoads, clCalls, dbProducts, ebRuns,
    aeClient, aeStore, aePrompt, aeResult,
    ebBatchSize, ppRun,
    cuTasks, cuCursor, cuRunning,
    sgService, sgInstance, sgCallers

retryVars == << config, rpc, attempt, last_exception, outcomes, trace, backoffs,
                backoff_delay, final_delay, result >>

fallbackVars == << fbPrompt, fbResult >>

parseVars == << redis_client, redis, reqs >>

planKeyVars == << planA, planB, keyA, keyB >>

planVars == << plan_redis_client, plan_redis, plans, fpQuery, fpPlan >>

scoreVars == << scN, scPc, scResponse, scScores, scRaised >>

searchVars == << srRequest, srTable, srPc, srTarget, srResult, srRaised, srStatus, srLog >>

cohVars == << chEmbeddings, chScore >>

clipVars == << clPhase, clModel, clLoads, clCalls, dbProducts, ebRuns >>

aesVars == << aeClient, aeStore, aePrompt, aeResult >>

embedVars == << ebBatchSize, ppRun >>

cursorVars == << cuTasks, cuCursor, cuRunning >>

singletonVars == << sgService, sgInstance, sgCallers >>

vars == << retryVars, fallbackVars, parseVars, planKeyVars, planVars, scoreVars,
           searchVars, cohVars, clipVars, aesVars, embedVars, cursorVars,
           singletonVars >>

\* What the actions of one component leave alone.
notRetry ==
    << fallbackVars, parseVars, planKeyVars, planVars, scoreVars, searchVars,
       cohVars, clipVars, aesVars,
       embedVars, cursorVars, singletonVars >>

notFallback ==
    << retryVars, parseVars, planKeyVars, planVars, scoreVars, searchVars,
       cohVars, clipVars, aesVars,
       embedVars, cursorVars, singletonVars >>

notParse ==
    << retryVars, fallbackVars, planKeyVars, planVars, scoreVars, searchVars,
       cohVars, clipVars, aesVars,
       embedVars, cursorVars, singletonVars >>

notPlanKey ==
    << retryVars, fallbackVars, parseVars, planVars, scoreVars, searchVars,
       cohVars, clipVars, aesVars,
       embedVars, cursorVars, singletonVars >>

notPlan ==
    << retryVars, fallbackVars, parseVars, planKeyVars, scoreVars, searchVars,
       cohVars, clipVars, aesVars,
       embedVars, cursorVars, singletonVars >>

notScore ==
    << retryVars, fallbackVars, parseVars, planKeyVars, planVars, searchVars,
       cohVars, clipVars, aesVars,
       embedVars, cursorVars, singletonVars >>

notSearch ==
    << retryVars, fallbackVars, parseVars, planKeyVars, planVars, scoreVars,
       cohVars, clipVars, aesVars,
       embedVars, cursorVars, singletonVars >>

notCoherence ==
    << retryVars, fallbackVars, parseVars, planKeyVars, planVars, scoreVars,
       searchVars, clipVars, aesVars,
       embedVars, cursorVars, singletonVars >>

notClip ==
    << retryVars, fallbackVars, parseVars, planKeyVars, planVars, scoreVars,
       searchVars, cohVars, aesVars,
       embedVars, cursorVars, singletonVars >>

notAesthetic ==
    << retryVars, fallbackVars, parseVars, planKeyVars, planVars, scoreVars,
       searchVars, cohVars, clipVars,
       embedVars, cursorVars, singletonVars >>

\* process_product and the sweep change the CLIP service, the products table
\* and their own records.
notEmbed ==
    << retryVars, fallbackVars, parseVars, planKeyVars, planVars, scoreVars,
       searchVars, cohVars, aesVars, cursorVars, singletonVars >>

notCursor ==
    << retryVars, fallbackVars, parseVars, planKeyVars, planVars, scoreVars,
       searchVars, cohVars, clipVars, aesVars, embedVars, singletonVars >>

notSingleton ==
    << retryVars, fallbackVars, parseVars, planKeyVars, planVars, scoreVars,
       searchVars, cohVars, clipVars, aesVars, embedVars, cursorVars >>

None == "None"

(***************************************************************************)
(* Rationals                                                               *)
(***************************************************************************)
Rat(n, d) == [num |-> n, den |-> d]

RatLE(a, b) == a.num * b.den <= b.num * a.den

RatEq(a, b) == a.num * b.den = b.num * a.den

RatMul(a, b) == Rat(a.num * b.num, a.den * b.den)

RatAdd(a, b) == Rat(a.num * b.den + b.num * a.den, a.den * b.den)

RatMin(a, b) == IF RatLE(a, b) THEN a ELSE b

RatMax(a, b) == IF RatLE(a, b) THEN b ELSE a

RECURSIVE RatPow(_, _)
RatPow(a, n) == IF n = 0 THEN Rat(1, 1) ELSE RatMul(a, RatPow(a, n - 1))

(***************************************************************************)
(* Strings: a str is a sequence of one-character strings                   *)
(***************************************************************************)
\* None where a str is expected (no str has an element of four characters).
NoneStr == << "None" >>

UpperCase == << "A", "B", "C", "D", "E", "F", "G", "H", "I", "J", "K", "L", "M", "N", "O", "P", "Q", "R", "S", "T", "U", "V", "W", "X", "Y", "Z" >>

LowerCase == << "a", "b", "c", "d", "e", "f", "g", "h", "i", "j", "k", "l", "m", "n", "o", "p", "q", "r", "s", "t", "u", "v", "w", "x", "y", "z" >>

DigitChars == << "0", "1", "2", "3", "4", "5", "6", "7", "8", "9" >>

Range(f) == { f[i] : i \in DOMAIN f }

\* The characters of the model in code-point order.
CodePoints ==
    << "\t", "\n", "\r", " ", "," >> \o DigitChars \o << ":" >> \o UpperCase
    \o LowerCase \o << "|" >>

IndexOf(c, alphabet) == CHOOSE k \in DOMAIN alphabet : alphabet[k] = c

\* str.lower() and str.upper(), character by character
LowerChar(c) == IF c \in Range(UpperCase) THEN LowerCase[IndexOf(c, UpperCase)] ELSE c

UpperChar(c) == IF c \in Range(LowerCase) THEN UpperCase[IndexOf(c, LowerCase)] ELSE c

lower(s) == [i \in 1..Len(s) |-> LowerChar(s[i])]

upper_identity(s) == s

upper(s) == [i \in 1..Len(s) |-> UpperChar(s[i])]

IsSpace(c) == c \in {" ", "\t", "\n", "\r"}

\* str.strip(): leading and trailing whitespace removed
RECURSIVE lstrip(_)
lstrip(s) == IF s # << >> /\ IsSpace(Head(s)) THEN lstrip(Tail(s)) ELSE s

RECURSIVE rstrip(_)
rstrip(s) ==
    IF s # << >> /\ IsSpace(s[Len(s)]) THEN rstrip(SubSeq(s, 1, Len(s) - 1)) ELSE s

strip_left_only(s) == lstrip(s)

strip(s) == rstrip(lstrip(s))

\* sub in s
Contains(s, sub) ==
    \E i \in 0..(Len(s) - Len(sub)) : SubSeq(s, i + 1, i + Len(sub)) = sub

IsDigit(c) == c \in Range(DigitChars)

\* a < b for two str: by code point, a proper prefix first
RECURSIVE StrLess(_, _)
StrLess(a, b) ==
    IF b = << >> THEN FALSE
    ELSE IF a = << >> THEN TRUE
    ELSE IF Head(a) = Head(b) THEN StrLess(Tail(a), Tail(b))
    ELSE IndexOf(Head(a), CodePoints) < IndexOf(Head(b), CodePoints)

\* sorted(list of str): a stable insertion sort
RECURSIVE Insert(_, _)
Insert(x, sortedList) ==
    IF sortedList = << >> THEN << x >>
    ELSE IF StrLess(x, Head(sortedList)) THEN << x >> \o sortedList
    ELSE << Head(sortedList) >> \o Insert(x, Tail(sortedList))

RECURSIVE sorted(_)
sorted(list) ==
    IF list = << >> THEN << >>
    ELSE Insert(list[Len(list)], sorted(SubSeq(list, 1, Len(list) - 1)))

\* sep.join(parts)
RECURSIVE join(_, _)
join(sep, parts) ==
    IF parts = << >> THEN << >>
    ELSE IF Len(parts) = 1 THEN parts[1]
    ELSE parts[1] \o sep \o join(sep, Tail(parts))

\* int(digits), for a non-empty run of decimal digits
RECURSIVE int(_)
int(ds) ==
    IF ds = << >> THEN 0
    ELSE 10 * int(SubSeq(ds, 1, Len(ds) - 1)) + (IndexOf(ds[Len(ds)], DigitChars) - 1)

\* re.search(r'(\d+)', s).group(1): the leftmost maximal run of digits, << >> for no match
FirstDigitRun(s) ==
    IF \A i \in 1..Len(s) : ~IsDigit(s[i]) THEN << >>
    ELSE LET first == CHOOSE i \in 1..Len(s) :
                          IsDigit(s[i]) /\ \A j \in 1..(i - 1) : ~IsDigit(s[j])
             last == CHOOSE k \in first..Len(s) :
                          /\ \A j \in first..k : IsDigit(s[j])
                          /\ (k = Len(s) \/ ~IsDigit(s[k + 1]))
         IN  SubSeq(s, first, last)

(***************************************************************************)
(* utils/retry.py                                                          *)
(***************************************************************************)
\* Largest max_retries of the enumerated policies.
MaxRetries == 3

\* random.uniform(-r, r) is drawn on a grid of 2*JitterGrid+1 points.
JitterGrid == 2

\* The exceptions an operation may raise and the values it may return.
Errors == {"E1", "E2"}

Values == {"v1"}

RetryConfig(r, i, m, b, j) ==
    [max_retries |-> r, initial_delay |-> i, max_delay |-> m,
     backoff_multiplier |-> b, jitter_enabled |-> j]

LLM_API == RetryConfig(3, Rat(1, 1), Rat(10, 1), Rat(2, 1), TRUE)

DATABASE == RetryConfig(5, Rat(2, 1), Rat(30, 1), Rat(2, 1), FALSE)

EXTERNAL_API == RetryConfig(2, Rat(1, 2), Rat(5, 1), Rat(2, 1), TRUE)

\* The policies the model runs the wrapper under: the three predefined ones and
\* every combination of small values (delays are durations: never negative).
Policies ==
    {LLM_API, DATABASE, EXTERNAL_API} \cup
    { RetryConfig(r, i, m, b, j) :
        r \in 0..MaxRetries,
        i \in {Rat(0, 1), Rat(1, 2), Rat(1, 1), Rat(3, 1)},
        m \in {Rat(1, 1), Rat(2, 1), Rat(10, 1)},
        b \in {Rat(1, 2), Rat(1, 1), Rat(3, 2), Rat(2, 1)},
        j \in BOOLEAN }

\* add_jitter(delay) with random.uniform's draw u/JitterGrid in [-1, 1].
add_jitter_wide(delay, u) ==
    LET jitter_range == RatMul(delay, Rat(1, 2))
        jitter == RatMul(jitter_range, Rat(u, JitterGrid))
    IN  RatMax(Rat(0, 1), RatAdd(delay, jitter))

add_jitter(delay, u) ==
    LET jitter_range == RatMul(delay, Rat(1, 4))
        jitter == RatMul(jitter_range, Rat(u, JitterGrid))
    IN  RatMax(Rat(0, 1), RatAdd(delay, jitter))

\* for attempt in range(config.max_retries + 1)
InRange(a) == a < config.max_retries + 1

\* if attempt == config.max_retries: break
IsLastAttempt_never(a) == FALSE

IsLastAttempt(a) == a = config.max_retries

\* backoff_delay = min(delay * (config.backoff_multiplier ** attempt), config.max_delay)
BackoffDelay(a) ==
    RatMin(RatMul(config.initial_delay, RatPow(config.backoff_multiplier, a)),
           config.max_delay)

\* final_delay = add_jitter(backoff_delay) if config.jitter_enabled else backoff_delay
FinalDelays(b) ==
    IF config.jitter_enabled
        THEN { add_jitter(b, u) : u \in (0 - JitterGrid)..JitterGrid }
        ELSE { b }

\* raise last_exception (after the loop)
Raise ==
    /\ rpc' = "raised"
    /\ result' = last_exception'

\* return await func(*args, **kwargs): the operation returned v
OnSuccess_continue(v) ==
    /\ outcomes' = Append(outcomes, v)
    /\ result' = v
    /\ rpc' = IF InRange(attempt + 1) THEN "loop" ELSE "returned"
    /\ attempt' = attempt + 1
    /\ UNCHANGED << last_exception, backoffs, backoff_delay, final_delay >>

OnSuccess(v) ==
    /\ outcomes' = Append(outcomes, v)
    /\ result' = v
    /\ rpc' = "returned"
    /\ UNCHANGED << attempt, last_exception, backoffs, backoff_delay, final_delay >>

\* except Exception as e: the operation raised e
OnFailure_first(e) ==
    /\ outcomes' = Append(outcomes, e)
    /\ last_exception' = IF last_exception = None THEN e ELSE last_exception
    /\ IF IsLastAttempt(attempt)
         THEN /\ Raise
              /\ UNCHANGED << attempt, backoffs, backoff_delay, final_delay >>
         ELSE /\ backoff_delay' = BackoffDelay(attempt)
              /\ final_delay' \in FinalDelays(backoff_delay')
              /\ backoffs' = Append(backoffs, backoff_delay')
              /\ rpc' = "sleeping"
              /\ UNCHANGED << attempt, result >>

OnFailure(e) ==
    /\ outcomes' = Append(outcomes, e)
    /\ last_exception' = e
    /\ IF IsLastAttempt(attempt)
         THEN /\ Raise
              /\ UNCHANGED << attempt, backoffs, backoff_delay, final_delay >>
         ELSE /\ backoff_delay' = BackoffDelay(attempt)
              /\ final_delay' \in FinalDelays(backoff_delay')
              /\ backoffs' = Append(backoffs, backoff_delay')
              /\ rpc' = "sleeping"
              /\ UNCHANGED << attempt, result >>

\* One pass of the loop body up to its await: the operation is invoked and
\* either returns or raises.
Invoke ==
    /\ rpc = "loop"
    /\ InRange(attempt)
    /\ trace' = Append(trace, "call")
    /\ \/ \E v \in Values : OnSuccess(v)
       \/ \E e \in Errors : OnFailure(e)
    /\ UNCHANGED << config, notRetry >>

\* await asyncio.sleep(final_delay), then the next pass of the loop; when the
\* range is used up the loop ends and last_exception is raised.
Sleep ==
    /\ rpc = "sleeping"
    /\ trace' = Append(trace, "sleep")
    /\ attempt' = attempt + 1
    /\ UNCHANGED << config, last_exception, outcomes, backoffs, backoff_delay,
                    final_delay, notRetry >>
    /\ IF InRange(attempt + 1)
         THEN rpc' = "loop" /\ UNCHANGED result
         ELSE Raise

\* The wrapper is not running.
IdleRetry ==
    /\ config = LLM_API
    /\ rpc = "idle"
    /\ attempt = 0
    /\ last_exception = None
    /\ outcomes = << >>
    /\ trace = << >>
    /\ backoffs = << >>
    /\ backoff_delay = Rat(0, 1)
    /\ final_delay = Rat(0, 1)
    /\ result = None

IdleFallback ==
    /\ fbPrompt = << >>
    /\ fbResult = << >>

\* No plan request.
IdlePlanKey ==
    /\ planA = << >>
    /\ planB = << >>
    /\ keyA = << >>
    /\ keyB = << >>

\* No search request.
IdleCoherence ==
    /\ chEmbeddings = << >>
    /\ chScore = << >>

IdleClip ==
    /\ clPhase = "idle"
    /\ clModel = None
    /\ clLoads = << >>
    /\ clCalls = << >>
    /\ dbProducts = << >>
    /\ ebRuns = << >>

IdleAesthetic ==
    /\ aeClient = None
    /\ aeStore = << >>
    /\ aePrompt = << >>
    /\ aeResult = << >>

\* No process_product call, no sweep.
IdleEmbed ==
    /\ ebBatchSize = 0
    /\ ppRun = << >>

\* No task on the event loop.
IdleCursor ==
    /\ cuTasks = << >>
    /\ cuCursor = << >>
    /\ cuRunning = 0

\* No service accessor called.
IdleSingleton ==
    /\ sgService = None
    /\ sgInstance = << >>
    /\ sgCallers = << >>

IdleSearch ==
    /\ srRequest = << >>
    /\ srTable = << >>
    /\ srPc = "idle"
    /\ srTarget = << >>
    /\ srResult = << >>
    /\ srRaised = None
    /\ srStatus = 0
    /\ srLog = << >>

\* No scoring request.
IdleScore ==
    /\ scN = 0
    /\ scPc = "idle"
    /\ scResponse = << >>
    /\ scScores = << >>
    /\ scRaised = FALSE

\* No plan service, no cache content, no request.
IdlePlan ==
    /\ plan_redis_client = None
    /\ plan_redis = [k \in {} |-> 0]
    /\ plans = [r \in {} |-> 0]
    /\ fpQuery = << >>
    /\ fpPlan = << >>

\* No parse service, no cache content, no request.
IdleParse ==
    /\ redis_client = None
    /\ redis = [k \in {} |-> 0]
    /\ reqs = [r \in {} |-> 0]

InitRetry ==
    /\ IdleEmbed
    /\ IdleCursor
    /\ IdleSingleton
    /\ IdleSearch
    /\ IdleCoherence
    /\ IdleClip
    /\ IdleAesthetic
    /\ IdleScore
    /\ IdleFallback
    /\ IdleParse
    /\ IdlePlanKey
    /\ IdlePlan
    /\ config \in Policies
    /\ rpc = "loop"
    /\ attempt = 0
    /\ last_exception = None
    /\ outcomes = << >>
    /\ trace = << >>
    /\ backoffs = << >>
    /\ backoff_delay = Rat(0, 1)
    /\ final_delay = Rat(0, 1)
    /\ result = None

NextRetry == Invoke \/ Sleep

SpecRetry == InitRetry /\ [][NextRetry]_vars

(***************************************************************************)
(* Retry executor: properties                                              *)
(***************************************************************************)
\* Number of invocations of the operation and of sleeps so far.
Calls == Cardinality({ i \in 1..Len(trace) : trace[i] = "call" })

Sleeps == Cardinality({ i \in 1..Len(trace) : trace[i] = "sleep" })

AllFailed == \A i \in 1..Len(outcomes) : outcomes[i] \in Errors

\* C1: when every attempt fails, the operation is invoked exactly
\* max_retries + 1 times and the wrapper then raises the exception of the
\* final invocation itself; it never raises before, and never invokes more.
C1_Exhaustion ==
    /\ rpc = "raised" =>
          /\ AllFailed
          /\ Calls = config.max_retries + 1
          /\ Len(outcomes) = Calls
          /\ result = outcomes[Len(outcomes)]
    /\ Calls <= config.max_retries + 1
    /\ (AllFailed /\ Len(outcomes) = config.max_retries + 1) => rpc = "raised"

\* An exhausted run of three retries whose final error is not the first one.
C1_Witness ==
    /\ rpc = "raised"
    /\ config.max_retries = 3
    /\ Len(outcomes) = 4
    /\ outcomes[1] # outcomes[4]
    /\ result = outcomes[4]

\* C2: an operation that fails on attempts 0..k-1 and succeeds on attempt k
\* makes the wrapper return that value after exactly k+1 invocations, k <=
\* max_retries; a success is always the last invocation of the run.
C2_Success ==
    /\ \A i \in 1..Len(outcomes) :
          outcomes[i] \in Values =>
             /\ i = Len(outcomes)
             /\ rpc = "returned"
             /\ result = outcomes[i]
             /\ Calls = i
             /\ i - 1 <= config.max_retries
             /\ \A j \in 1..(i - 1) : outcomes[j] \in Errors
    /\ rpc = "returned" => (outcomes # << >> /\ outcomes[Len(outcomes)] \in Values)

\* Attempts 0..2 failed and attempt 3 succeeded under max_retries = 3.
C2_Witness ==
    /\ rpc = "returned"
    /\ config.max_retries = 3
    /\ Len(outcomes) = 4
    /\ result \in Values
    /\ \A j \in 1..3 : outcomes[j] \in Errors

\* initial_delay * backoff_multiplier^n by repeated multiplication.
RECURSIVE Scaled(_, _, _)
Scaled(x, m, n) == IF n = 0 THEN x ELSE Scaled(RatMul(x, m), m, n - 1)

ExpectedDelay(n) ==
    IF RatLE(Scaled(config.initial_delay, config.backoff_multiplier, n), config.max_delay)
        THEN Scaled(config.initial_delay, config.backoff_multiplier, n)
        ELSE config.max_delay

\* C3: the delay slept after failed attempt n < max_retries is
\* min(initial_delay * backoff_multiplier^n, max_delay) without jitter, and
\* with jitter within 25% of that value and never negative; the un-jittered
\* delays never exceed max_delay and never decrease when the multiplier is >= 1.
C3_Delay ==
    /\ rpc = "sleeping" =>
          /\ attempt < config.max_retries
          /\ RatEq(backoff_delay, ExpectedDelay(attempt))
          /\ ~config.jitter_enabled => RatEq(final_delay, backoff_delay)
          /\ config.jitter_enabled =>
                /\ RatLE(RatMul(Rat(3, 4), backoff_delay), final_delay)
                /\ RatLE(final_delay, RatMul(Rat(5, 4), backoff_delay))
          /\ RatLE(Rat(0, 1), final_delay)
    /\ \A n \in 1..Len(backoffs) :
          /\ RatEq(backoffs[n], ExpectedDelay(n - 1))
          /\ RatLE(backoffs[n], config.max_delay)
    /\ RatLE(Rat(1, 1), config.backoff_multiplier) =>
          \A n \in 1..(Len(backoffs) - 1) : RatLE(backoffs[n], backoffs[n + 1])

\* A jittered sleep at the edge of the range whose backoff hit the cap after growing.
C3_Witness ==
    /\ rpc = "sleeping"
    /\ config.jitter_enabled
    /\ attempt >= 1
    /\ RatEq(backoff_delay, config.max_delay)
    /\ ~RatLE(Scaled(config.initial_delay, config.backoff_multiplier, attempt),
              config.max_delay)
    /\ ~RatEq(backoffs[1], backoffs[Len(backoffs)])
    /\ RatEq(final_delay, RatMul(Rat(5, 4), backoff_delay))

\* C4: invocations and sleeps alternate strictly (one sleep between two
\* consecutive invocations), a finished run ends with an invocation, an
\* exhausted run slept max_retries times and a run succeeding on attempt k, k times.
C4_Ordering ==
    /\ \A i \in 1..Len(trace) :
          trace[i] = (IF i % 2 = 1 THEN "call" ELSE "sleep")
    /\ rpc \in {"raised", "returned"} =>
          /\ trace # << >>
          /\ trace[Len(trace)] = "call"
    /\ rpc = "raised" => Sleeps = config.max_retries
    /\ rpc = "returned" => Sleeps = Len(outcomes) - 1

\* An exhausted run that slept three times, and not after its last failure.
C4_Witness ==
    /\ rpc = "raised"
    /\ config.max_retries = 3
    /\ Sleeps = 3
    /\ Calls = 4
    /\ trace[Len(trace)] = "call"

(***************************************************************************)
(* models.py: ParsedPrompt                                                 *)
(***************************************************************************)
s_male == << "m", "a", "l", "e" >>

s_female == << "f", "e", "m", "a", "l", "e" >>

s_unisex == << "u", "n", "i", "s", "e", "x" >>

s_men == << "m", "e", "n" >>

s_women == << "w", "o", "m", "e", "n" >>

s_top == << "t", "o", "p" >>

s_bottom == << "b", "o", "t", "t", "o", "m" >>

s_shoes == << "s", "h", "o", "e", "s" >>

s_accessories == << "a", "c", "c", "e", "s", "s", "o", "r", "i", "e", "s" >>

s_shoe == << "s", "h", "o", "e" >>

s_accessor == << "a", "c", "c", "e", "s", "s", "o", "r" >>

s_size_ == << "s", "i", "z", "e", " " >>

SizeLiterals == { << "X", "S" >>, << "S" >>, << "M" >>, << "L" >>, << "X", "L" >>, << "X", "X", "L" >> }

GenderLiterals == { s_male, s_female, s_unisex }

CategoryLiterals == { s_top, s_bottom, s_shoes, s_accessories }

\* Field constraints of ParsedPrompt: aesthetic a str, budget None (<< >>) or an
\* int >= 0 (<< n >>), size and gender None or one of their literals, occasion
\* None or a str, categories a list of category literals.
ValidParsedPrompt(f) ==
    /\ f.aesthetic # NoneStr
    /\ (f.budget = << >> \/ f.budget[1] >= 0)
    /\ (f.size = NoneStr \/ f.size \in SizeLiterals)
    /\ (f.gender = NoneStr \/ f.gender \in GenderLiterals)
    /\ \A i \in 1..Len(f.categories) : f.categories[i] \in CategoryLiterals

\* ParsedPrompt(**fields): the validated model, or a ValidationError
ParsedPrompt(f) == [error |-> ~ValidParsedPrompt(f), value |-> f]

(***************************************************************************)
(* parse_service.py: _create_fallback_parse                                *)
(***************************************************************************)
\* for s in ["xs", "s", "m", "l", "xl", "xxl"]
SizeTokens == << << "x", "s" >>, << "s" >>, << "m" >>, << "l" >>, << "x", "l" >>, << "x", "x", "l" >> >>

\* f" {s} " in f" {prompt_lower} " or f"size {s}" in prompt_lower
SizeMatch(prompt_lower, s) ==
    \/ Contains(<< " " >> \o prompt_lower \o << " " >>, << " " >> \o s \o << " " >>)
    \/ Contains(prompt_lower, s_size_ \o s)

FallbackBudget(prompt_lower) ==
    LET budget_match == FirstDigitRun(prompt_lower)
    IN  IF budget_match # << >> THEN << int(budget_match) >> ELSE << >>

FallbackSize(prompt_lower) ==
    IF \A i \in 1..Len(SizeTokens) : ~SizeMatch(prompt_lower, SizeTokens[i])
        THEN NoneStr
        ELSE LET i == CHOOSE k \in 1..Len(SizeTokens) :
                          /\ SizeMatch(prompt_lower, SizeTokens[k])
                          /\ \A j \in 1..(k - 1) : ~SizeMatch(prompt_lower, SizeTokens[j])
             IN  upper(SizeTokens[i])

FallbackGender(prompt_lower) ==
    IF Contains(prompt_lower, s_men) \/ Contains(prompt_lower, s_male) THEN s_male
    ELSE IF Contains(prompt_lower, s_women) \/ Contains(prompt_lower, s_female)
        THEN s_female
    ELSE s_unisex

FallbackCategories(prompt_lower) ==
    << s_top, s_bottom >>
    \o (IF Contains(prompt_lower, s_shoe) THEN << s_shoes >> ELSE << >>)
    \o (IF Contains(prompt_lower, s_accessor) THEN << s_accessories >> ELSE << >>)

_create_fallback_parse(prompt) ==
    LET prompt_lower == lower(prompt)
    IN  ParsedPrompt([aesthetic  |-> prompt,
                      budget     |-> FallbackBudget(prompt_lower),
                      size       |-> FallbackSize(prompt_lower),
                      gender     |-> FallbackGender(prompt_lower),
                      occasion   |-> NoneStr,
                      categories |-> FallbackCategories(prompt_lower)])

\* Prompts are concatenations of at most MaxFrags of these pieces.
MaxFrags == 3

Fragments ==
    { << " " >>, s_men, << "w", "o" >>, << "f", "e" >>, s_male, s_shoe, s_accessor,
      << "s" >>, << "x", "l" >>, << "x" >>, << "s", "i", "z", "e" >>,
      << "5" >>, << "1", "2" >>, << "M" >> }

RECURSIVE PromptsOfLen(_)
PromptsOfLen(n) ==
    IF n = 0 THEN { << >> }
    ELSE { p \o f : p \in PromptsOfLen(n - 1), f \in Fragments }

Prompts == UNION { PromptsOfLen(n) : n \in 0..MaxFrags }

\* The fallback extractor applied to one prompt.
Fallback ==
    /\ fbResult = << >>
    /\ fbResult' = << _create_fallback_parse(fbPrompt) >>
    /\ UNCHANGED << fbPrompt, notFallback >>

InitFallback ==
    /\ IdleEmbed
    /\ IdleCursor
    /\ IdleSingleton
    /\ IdleSearch
    /\ IdleCoherence
    /\ IdleClip
    /\ IdleAesthetic
    /\ IdleScore
    /\ IdleRetry
    /\ IdleParse
    /\ IdlePlanKey
    /\ IdlePlan
    /\ fbPrompt \in Prompts
    /\ fbResult = << >>

NextFallback == Fallback

SpecFallback == InitFallback /\ [][NextFallback]_vars

\* C8: for every prompt the fallback extractor returns, without error, a valid
\* ParsedPrompt whose aesthetic is the raw prompt, whose budget is absent or
\* an integer >= 0, whose size is absent or one of XS/S/M/L/XL/XXL, whose
\* gender is male, female or unisex (unisex when the prompt holds no gender
\* keyword), whose occasion is absent and whose categories are category
\* literals that include top and bottom.
HasKeyword(prompt, kws) ==
    \E kw \in kws : \E i \in 1..Len(prompt) :
        /\ i + Len(kw) - 1 <= Len(prompt)
        /\ \A j \in 1..Len(kw) : LowerChar(prompt[i + j - 1]) = kw[j]

C8_FallbackTotal ==
    \A i \in 1..Len(fbResult) :
        LET r == fbResult[i]
            p == r.value
        IN  /\ ~r.error
            /\ p.aesthetic = fbPrompt
            /\ Len(p.budget) <= 1
            /\ \A k \in 1..Len(p.budget) : p.budget[k] \in Nat
            /\ (p.size = NoneStr \/ p.size \in SizeLiterals)
            /\ p.gender \in GenderLiterals
            /\ (~HasKeyword(fbPrompt, {s_men, s_male, s_women, s_female})
                    => p.gender = s_unisex)
            /\ p.occasion = NoneStr
            /\ Range(p.categories) \subseteq CategoryLiterals
            /\ {s_top, s_bottom} \subseteq Range(p.categories)

\* A prompt with an upper-case size token and a budget: "M 12".
C8_Witness ==
    /\ fbPrompt = << "M", " ", "1", "2" >>
    /\ fbResult # << >>
    /\ fbResult[1].value.size = << "M" >>
    /\ fbResult[1].value.budget = << 12 >>
    /\ fbResult[1].value.gender = s_unisex
    /\ fbResult[1].value.categories = << s_top, s_bottom >>

\* kw occurs in the lower-cased prompt at a place where it is not the tail
\* of the keyword longer (longer = prefix \o kw)
OccursOutside(prompt_lower, kw, prefix) ==
    \E i \in 1..Len(prompt_lower) :
        /\ i + Len(kw) - 1 <= Len(prompt_lower)
        /\ SubSeq(prompt_lower, i, i + Len(kw) - 1) = kw
        /\ ~(i > Len(prefix) /\ SubSeq(prompt_lower, i - Len(prefix), i - 1) = prefix)

\* C34: a prompt whose lower-cased text contains "women" or "female" gets
\* gender female; male is returned only when "men" or "male" occurs outside
\* a female keyword.
C34_FallbackGenderKeywords ==
    fbResult # << >> =>
        LET gender == fbResult[1].value.gender
            prompt_lower == lower(fbPrompt)
        IN  /\ HasKeyword(fbPrompt, {s_women, s_female}) => gender = s_female
            /\ gender = s_male =>
                  \/ OccursOutside(prompt_lower, s_men, << "w", "o" >>)
                  \/ OccursOutside(prompt_lower, s_male, << "f", "e" >>)

\* The size token s stands in the lower-cased prompt as a whole word
WholeWord(prompt_lower, s) ==
    Contains(<< " " >> \o prompt_lower \o << " " >>, << " " >> \o s \o << " " >>)

\* C35: the fallback sets size X only when the lower-cased prompt holds the
\* token x as a whole word, delimited by spaces or the ends of the prompt; a
\* token that is only the beginning of a longer word yields no size.
C35_FallbackSizeWordBoundary ==
    (fbResult # << >> /\ fbResult[1].value.size # NoneStr) =>
        \E i \in 1..Len(SizeTokens) :
            /\ upper(SizeTokens[i]) = fbResult[1].value.size
            /\ WholeWord(lower(fbPrompt), SizeTokens[i])

(***************************************************************************)
(* parse_service.py: ParseService.parse_prompt and its Redis cache         *)
(***************************************************************************)
\* Requests that may be in flight at once; a finished slot takes a new request.
NumReqs == 2

Reqs == 1..NumReqs

\* settings.redis_ttl, in seconds
redis_ttl == 3600

\* The prompts of the requests: two that differ in case and outer whitespace
\* only, and one that differs inside.
ParsePrompts ==
    { << " ", "A", "b", "\t" >>, << "a", "b" >>, << "a", " ", "b" >> }

\* hashlib.md5(text.encode()).hexdigest(): a digest that is one-to-one on the texts
md5_hexdigest(text) == << "md5(" >> \o text \o << ")" >>

\* f"parse:{prompt_hash}" of the lower-cased, stripped prompt
_generate_cache_key(prompt) ==
    << "p", "a", "r", "s", "e", ":" >> \o md5_hexdigest(strip(lower(prompt)))

\* parsed.model_dump_json() and json.loads(cached)
model_dump_json(parsed) == [json |-> parsed]

json_loads(text) == text.json

\* A text that json.loads rejects, and the texts it accepts.
NotJson == [garbage |-> "{"]

IsJson(text) == "json" \in DOMAIN text

\* The commands of a client raise when the server cannot be reached, and may
\* raise at any time.
Raises(client) == IF client = "unreachable" THEN {TRUE} ELSE BOOLEAN

\* What the completion API may answer to a prompt: the call raises, the
\* content is not JSON, or the content is JSON holding these keyword arguments
\* of ParsedPrompt (one valid and naming the prompt it answers, one violating
\* the constraint on budget).
ApiData(prompt) ==
    { [aesthetic |-> prompt, budget |-> << 5 >>, size |-> << "M" >>,
       gender |-> s_male, occasion |-> NoneStr, categories |-> << s_top >>],
      [aesthetic |-> prompt, budget |-> << -5 >>, size |-> << "M" >>,
       gender |-> s_male, occasion |-> NoneStr, categories |-> << s_top >>] }

ApiResponses(prompt) ==
    { [kind |-> "error", data |-> << >>], [kind |-> "not_json", data |-> << >>] }
    \cup { [kind |-> "json", data |-> << d >>] : d \in ApiData(prompt) }

IdleReq ==
    [pc |-> "idle", prompt |-> << >>, cache_key |-> << >>, parsed |-> << >>,
     ret |-> << >>, raised |-> FALSE, source |-> "none", failure |-> "none",
     api_calls |-> 0, hit |-> << >>]

\* return value, is_cached
Return(req, parsed, is_cached, source) ==
    [req EXCEPT !.pc = "done", !.source = source, !.parsed = << >>,
                !.ret = << [parsed |-> parsed, is_cached |-> is_cached] >>]

\* _get_cached(cache_key): None (<< >>) without a client, when get raises,
\* when there is no value, when the value is not JSON or does not build a
\* ParsedPrompt
_get_cached_miss(cache_key, raises) == << >>

_get_cached_unvalidated(cache_key, raises) ==
    IF redis_client = None THEN << >>
    ELSE IF raises THEN << >>
    ELSE IF cache_key \notin DOMAIN redis THEN << >>
    ELSE IF ~IsJson(redis[cache_key].value) THEN << >>
    ELSE << json_loads(redis[cache_key].value) >>

_get_cached(cache_key, raises) ==
    IF redis_client = None THEN << >>
    ELSE IF raises THEN << >>
    ELSE IF cache_key \notin DOMAIN redis THEN << >>
    ELSE IF ~IsJson(redis[cache_key].value) THEN << >>
    ELSE LET built == ParsedPrompt(json_loads(redis[cache_key].value))
         IN  IF built.error THEN << >> ELSE << built.value >>

\* The entry redis_client.get(cache_key) itself answered with, if any.
GetReply(cache_key, raises) ==
    IF redis_client # None /\ ~raises /\ cache_key \in DOMAIN redis
        THEN << [key |-> cache_key, entry |-> redis[cache_key]] >>
        ELSE << >>

\* redis_client.setex(cache_key, settings.redis_ttl, parsed.model_dump_json())
SetexEntry_noexpiry(req) ==
    [value |-> model_dump_json(req.parsed[1]), ttl |-> -1,
     prompt |-> req.prompt, validated |-> req.failure = "none" /\ req.api_calls > 0]

SetexEntry(req) ==
    [value |-> model_dump_json(req.parsed[1]), ttl |-> redis_ttl,
     prompt |-> req.prompt, validated |-> req.failure = "none" /\ req.api_calls > 0]

\* _set_cache(cache_key, parsed): the cache after it
_set_cache(req, raises) ==
    IF redis_client = None \/ raises THEN redis
    ELSE [k \in DOMAIN redis \cup {req.cache_key} |->
             IF k = req.cache_key THEN SetexEntry(req) ELSE redis[k]]

\* The failures of the try block that an except clause catches
\* (json.JSONDecodeError, then Exception).
Caught_json_only(failure) == failure = "json"

Caught(failure) == failure \in {"api_error", "json", "validation"}

\* The except clauses: return self._create_fallback_parse(prompt), False
OnTryFailure(req, failure) ==
    LET failed == [req EXCEPT !.failure = failure]
        fallback == _create_fallback_parse(req.prompt)
    IN  IF ~Caught(failure) \/ fallback.error
            THEN [failed EXCEPT !.pc = "done", !.raised = TRUE]
            ELSE Return(failed, fallback.value, FALSE, "fallback")

\* A request arrives: cache_key = self._generate_cache_key(prompt), and the
\* cache is asked.
Start(r) ==
    /\ reqs[r].pc = "idle"
    /\ \E prompt \in ParsePrompts :
          reqs' = [reqs EXCEPT ![r] =
                      [IdleReq EXCEPT !.pc = "get", !.prompt = prompt,
                                      !.cache_key = _generate_cache_key(prompt)]]
    /\ UNCHANGED << redis_client, redis, notParse >>

\* cached = await self._get_cached(cache_key); if cached: return cached, True
CacheGet(r) ==
    /\ reqs[r].pc = "get"
    /\ \E raises \in Raises(redis_client) :
          LET cached == _get_cached(reqs[r].cache_key, raises)
              asked == [reqs[r] EXCEPT !.hit = GetReply(reqs[r].cache_key, raises)]
          IN  reqs' = [reqs EXCEPT ![r] =
                          IF cached # << >>
                              THEN Return(asked, cached[1], TRUE, "cache")
                              ELSE [asked EXCEPT !.pc = "api"]]
    /\ UNCHANGED << redis_client, redis, notParse >>

\* The try block up to its cache write: the completion API is called, the
\* content decoded and validated; any failure goes to the except clauses.
ApiCall(r) ==
    /\ reqs[r].pc = "api"
    /\ \E response \in ApiResponses(reqs[r].prompt) :
          LET called == [reqs[r] EXCEPT !.api_calls = @ + 1]
          IN  reqs' = [reqs EXCEPT ![r] =
                  IF response.kind = "error" THEN OnTryFailure(called, "api_error")
                  ELSE IF response.kind = "not_json" THEN OnTryFailure(called, "json")
                  ELSE LET parsed == ParsedPrompt(response.data[1])
                       IN  IF parsed.error
                               THEN OnTryFailure(called, "validation")
                               ELSE [called EXCEPT !.pc = "set",
                                                   !.parsed = << parsed.value >>]]
    /\ UNCHANGED << redis_client, redis, notParse >>

\* await self._set_cache(cache_key, parsed); return parsed, False
CacheSet(r) ==
    /\ reqs[r].pc = "set"
    /\ \E raises \in Raises(redis_client) : redis' = _set_cache(reqs[r], raises)
    /\ reqs' = [reqs EXCEPT ![r] = Return(reqs[r], reqs[r].parsed[1], FALSE, "api")]
    /\ UNCHANGED << redis_client, notParse >>

\* The caller has its answer; the slot is free for the next request.
Finish(r) ==
    /\ reqs[r].pc = "done"
    /\ reqs' = [reqs EXCEPT ![r] = IdleReq]
    /\ UNCHANGED << redis_client, redis, notParse >>

\* Redis drops an entry whose time to live has run out.
Expire ==
    /\ \E k \in DOMAIN redis :
          /\ redis[k].ttl >= 0
          /\ redis' = [j \in DOMAIN redis \ {k} |-> redis[j]]
    /\ UNCHANGED << redis_client, reqs, notParse >>

\* initialize(): the Redis connection is there, or connecting failed and
\* redis_client is None.
InitParse ==
    /\ IdleEmbed
    /\ IdleCursor
    /\ IdleSingleton
    /\ IdleSearch
    /\ IdleCoherence
    /\ IdleClip
    /\ IdleAesthetic
    /\ IdleScore
    /\ IdleRetry
    /\ IdleFallback
    /\ IdlePlanKey
    /\ IdlePlan
    /\ redis_client \in {None, "client"}
    /\ redis = [k \in {} |-> 0]
    /\ reqs = [r \in Reqs |-> IdleReq]

NextParse ==
    \/ \E r \in Reqs : Start(r)
    \/ \E r \in Reqs : CacheGet(r)
    \/ \E r \in Reqs : ApiCall(r)
    \/ \E r \in Reqs : CacheSet(r)
    \/ \E r \in Reqs : Finish(r)
    \/ Expire

SpecParse == InitParse /\ [][NextParse]_vars

(***************************************************************************)
(* Parser: properties                                                      *)
(***************************************************************************)
\* C5: a request whose cache read answered with an entry returns that entry
\* with fromCache = true and never calls the completion API; and a result is
\* flagged fromCache = true only if it was read from the cache under the key
\* derived from the request's prompt.
C5_CacheHit ==
    \A r \in Reqs :
        LET q == reqs[r]
        IN  /\ q.hit # << >> =>
                  /\ q.pc = "done"
                  /\ ~q.raised
                  /\ q.api_calls = 0
                  /\ q.ret = << [parsed |-> json_loads(q.hit[1].entry.value),
                                 is_cached |-> TRUE] >>
            /\ \A i \in 1..Len(q.ret) :
                  q.ret[i].is_cached =>
                     /\ q.hit # << >>
                     /\ q.hit[1].key = _generate_cache_key(q.prompt)
                     /\ q.api_calls = 0

\* A request answered from the cache with the entry an earlier request with
\* the same prompt stored.
C5_Witness ==
    \E r \in Reqs :
        /\ reqs[r].pc = "done"
        /\ reqs[r].source = "cache"
        /\ reqs[r].ret[1].is_cached
        /\ reqs[r].hit[1].entry.prompt = reqs[r].prompt
        /\ reqs[r].ret[1].parsed.aesthetic = reqs[r].prompt

\* C6: after a cache miss, a failure of the completion-API call, of the JSON
\* decoding or of the validation never leaves parse_prompt as an exception:
\* the request returns the fallback extractor's result for its prompt with
\* fromCache = false.
C6_NoPropagation ==
    \A r \in Reqs :
        LET q == reqs[r]
        IN  /\ ~q.raised
            /\ q.failure # "none" =>
                  /\ q.pc = "done"
                  /\ q.hit = << >>
                  /\ q.api_calls = 1
                  /\ ~_create_fallback_parse(q.prompt).error
                  /\ q.ret = << [parsed |-> _create_fallback_parse(q.prompt).value,
                                 is_cached |-> FALSE] >>
                  /\ q.ret[1].parsed.aesthetic = q.prompt

\* Two requests that ended in the fallback, one after undecodable content and
\* one after content that failed validation.
C6_Witness ==
    \E r1, r2 \in Reqs :
        /\ reqs[r1].pc = "done" /\ reqs[r1].failure = "json"
        /\ reqs[r2].pc = "done" /\ reqs[r2].failure = "validation"
        /\ ~reqs[r1].ret[1].is_cached
        /\ ~reqs[r2].ret[1].is_cached
        /\ reqs[r2].ret[1].parsed.gender = s_unisex

\* Every cache entry holds a validated result stored with a finite time to live.
EntriesValidated ==
    \A k \in DOMAIN redis :
        /\ redis[k].validated
        /\ redis[k].ttl \in Nat
        /\ redis[k].ttl = redis_ttl
        /\ ValidParsedPrompt(json_loads(redis[k].value))

\* The cache changes only when a request whose API call, decoding and
\* validation succeeded stores its result, or when an entry expires; a step
\* in which a request ends in the fallback leaves the cache as it was.
OnlyValidatedWrites ==
    /\ redis' # redis =>
          \/ \E r \in Reqs :
                /\ reqs[r].pc = "set" /\ reqs[r].failure = "none"
                /\ reqs[r].api_calls = 1
                /\ reqs'[r].source = "api"
                /\ DOMAIN redis' = DOMAIN redis \cup {reqs[r].cache_key}
                /\ \A k \in DOMAIN redis \ {reqs[r].cache_key} : redis'[k] = redis[k]
          \/ /\ DOMAIN redis' \subseteq DOMAIN redis
             /\ DOMAIN redis' # DOMAIN redis
             /\ \A k \in DOMAIN redis' : redis'[k] = redis[k]
    /\ \A r \in Reqs :
          (reqs'[r].source = "fallback" /\ reqs[r].source # "fallback") => redis' = redis

\* C7: every entry of the parse cache was written by a request whose
\* completion-API call, JSON decoding and validation all succeeded, with a
\* finite TTL; a request that ends in the fallback extractor writes nothing.
C7_WritePolicy == [] EntriesValidated /\ [][OnlyValidatedWrites]_vars

\* With a working cache, one request ended in the fallback and a later one
\* with the same prompt has missed the cache again, while the cache holds
\* the validated result of another prompt.
C7_Witness ==
    \E r1, r2 \in Reqs :
        /\ redis_client # None
        /\ reqs[r1].pc = "done" /\ reqs[r1].source = "fallback"
        /\ reqs[r2].prompt = reqs[r1].prompt
        /\ reqs[r2].pc = "api" /\ reqs[r2].hit = << >>
        /\ reqs[r1].cache_key \notin DOMAIN redis
        /\ redis # [k \in {} |-> 0]

\* The prompt without its leading and trailing whitespace.
Core(p) ==
    LET ink == { i \in 1..Len(p) : ~IsSpace(p[i]) }
    IN  IF ink = {} THEN << >>
        ELSE SubSeq(p, CHOOSE i \in ink : \A j \in ink : i <= j,
                       CHOOSE i \in ink : \A j \in ink : j <= i)

SameAfterLowerTrim(p, q) ==
    /\ Len(Core(p)) = Len(Core(q))
    /\ \A i \in 1..Len(Core(p)) : LowerChar(Core(p)[i]) = LowerChar(Core(q)[i])

\* C9: prompts that are equal after lower-casing and trimming derive the same
\* parse cache key: two such requests look up the same key, and an entry
\* stored for one lies under the key the other looks up.
C9_KeyDeterminism ==
    \A r \in Reqs :
        reqs[r].pc # "idle" =>
           /\ \A r2 \in Reqs :
                 (reqs[r2].pc # "idle"
                    /\ SameAfterLowerTrim(reqs[r].prompt, reqs[r2].prompt))
                 => reqs[r].cache_key = reqs[r2].cache_key
           /\ \A k \in DOMAIN redis :
                 SameAfterLowerTrim(redis[k].prompt, reqs[r].prompt)
                 => k = reqs[r].cache_key

\* A request is answered from the cache with the entry stored for a prompt
\* that differs from its own in case and outer whitespace.
C9_Witness ==
    \E r \in Reqs :
        /\ reqs[r].pc = "done"
        /\ reqs[r].ret[1].is_cached
        /\ reqs[r].prompt = << "a", "b" >>
        /\ reqs[r].hit[1].entry.prompt = << " ", "A", "b", "\t" >>

(***************************************************************************)
(* plan_service.py: PlanService._generate_cache_key                        *)
(***************************************************************************)
\* Longest categories list of a plan request.
MaxCats == 2

\* parsed_prompt.gender or "unisex"
GenderOrUnisex(gender) == IF gender = NoneStr THEN s_unisex ELSE gender

\* parsed_prompt.occasion or ""
OccasionOrEmpty(occasion) ==
    IF occasion = NoneStr \/ occasion = << >> THEN << >> ELSE occasion

sorted_identity(list) == list

\* sorted(parsed_prompt.categories)
SortedCategories(list) == sorted(list)

\* The four key parts, joined with "|", hashed, prefixed with "plan:"
PlanService_generate_cache_key(parsed_prompt) ==
    LET key_parts == << strip(lower(parsed_prompt.aesthetic)),
                        GenderOrUnisex(parsed_prompt.gender),
                        join(<< "," >>, SortedCategories(parsed_prompt.categories)),
                        OccasionOrEmpty(parsed_prompt.occasion) >>
        key_string == join(<< "|" >>, key_parts)
    IN  << "p", "l", "a", "n", ":" >> \o md5_hexdigest(key_string)

RECURSIVE CatsOfLen(_)
CatsOfLen(n) ==
    IF n = 0 THEN { << >> }
    ELSE { c \o << x >> : c \in CatsOfLen(n - 1), x \in CategoryLiterals }

PlanRequest(a, g, o, c) ==
    [aesthetic |-> a, budget |-> << >>, size |-> NoneStr, gender |-> g,
     occasion |-> o, categories |-> c]

\* The ParsedPrompt of a first plan request (validated by the route's schema).
PlanRequests ==
    { PlanRequest(a, g, o, c) :
        a \in { << " ", "A", "b" >>, << "b" >> },
        g \in { NoneStr, s_male },
        o \in { NoneStr, << "d" >>, s_male \o << "|" >> \o s_top \o << "|" >> },
        c \in UNION { CatsOfLen(n) : n \in 0..MaxCats } }

\* The same categories in every order.
Rearranged(list) ==
    LET n == Len(list)
        bijections == { f \in [1..n -> 1..n] : \A i, j \in 1..n : f[i] = f[j] => i = j }
    IN  { [i \in 1..n |-> list[f[i]]] : f \in bijections }

\* A second request beside a first one: any aesthetic, gender and occasion,
\* with the first one's categories rearranged, or with one dropped or added.
Companions(first) ==
    { PlanRequest(a, g, o, c) :
        a \in { << " ", "A", "b" >>, << "a", "b" >>, << "b" >>,
                 << "b", "|" >> \o s_male \o << "|" >> \o s_top },
        g \in { NoneStr, s_unisex, s_male },
        o \in { NoneStr, << >>, << "d" >> },
        c \in Rearranged(first.categories)
              \cup { SubSeq(first.categories, 2, Len(first.categories)),
                     first.categories \o << s_top >> } }

\* The cache keys of two plan requests are derived.
DeriveKeys ==
    /\ keyA = << >>
    /\ \E second \in Companions(planA[1]) :
          /\ planB' = << second >>
          /\ keyA' = PlanService_generate_cache_key(planA[1])
          /\ keyB' = PlanService_generate_cache_key(second)
    /\ UNCHANGED << planA, notPlanKey >>

InitPlanKey ==
    /\ IdleEmbed
    /\ IdleCursor
    /\ IdleSingleton
    /\ IdleSearch
    /\ IdleCoherence
    /\ IdleClip
    /\ IdleAesthetic
    /\ IdleScore
    /\ IdleRetry
    /\ IdleFallback
    /\ IdleParse
    /\ IdlePlan
    /\ \E first \in PlanRequests : planA = << first >>
    /\ planB = << >>
    /\ keyA = << >>
    /\ keyB = << >>

NextPlanKey == DeriveKeys

SpecPlanKey == InitPlanKey /\ [][NextPlanKey]_vars

\* How often x occurs in a list.
Count(x, list) == Cardinality({ i \in 1..Len(list) : list[i] = x })

SameCategoriesAnyOrder(a, b) ==
    /\ Len(a) = Len(b)
    /\ \A x \in Range(a) \cup Range(b) : Count(x, a) = Count(x, b)

\* C10: two plan requests with the same aesthetic after lower-casing and
\* trimming, the same gender (absent counts as unisex), the same occasion
\* (absent counts as empty) and the same categories in any order derive the
\* same plan cache key.
C10_PlanKeyOrder ==
    \A i \in 1..Len(planB) :
        LET a == planA[1]
            b == planB[i]
        IN  ( /\ SameAfterLowerTrim(a.aesthetic, b.aesthetic)
              /\ (IF a.gender = NoneStr THEN s_unisex ELSE a.gender)
                   = (IF b.gender = NoneStr THEN s_unisex ELSE b.gender)
              /\ (IF a.occasion = NoneStr THEN << >> ELSE a.occasion)
                   = (IF b.occasion = NoneStr THEN << >> ELSE b.occasion)
              /\ SameCategoriesAnyOrder(a.categories, b.categories) )
            => keyA = keyB

\* Two requests that differ in the order of their categories, in the case of
\* the aesthetic, and in gender and occasion being absent or defaulted.
C10_Witness ==
    /\ planB # << >>
    /\ planA[1].categories = << s_top, s_bottom >>
    /\ planB[1].categories = << s_bottom, s_top >>
    /\ planA[1].aesthetic = << " ", "A", "b" >>
    /\ planB[1].aesthetic = << "a", "b" >>
    /\ planA[1].gender = NoneStr /\ planB[1].gender = s_unisex
    /\ planA[1].occasion = NoneStr /\ planB[1].occasion = << >>
    /\ keyA = keyB

(***************************************************************************)
(* plan_service.py: PlanService.plan_outfit, its Redis cache and fallback  *)
(***************************************************************************)
\* Longest aesthetic, in fragments, the fallback plan is computed for.
MaxPlanFrags == 2

s_korean == << "k", "o", "r", "e", "a", "n" >>

s_minimal == << "m", "i", "n", "i", "m", "a", "l" >>

s_street == << "s", "t", "r", "e", "e", "t" >>

s_y2k == << "y", "2", "k" >>

s_vintage == << "v", "i", "n", "t", "a", "g", "e" >>

s_athle == << "a", "t", "h", "l", "e" >>

s_sport == << "s", "p", "o", "r", "t" >>

s_office == << "o", "f", "f", "i", "c", "e" >>

s_formal == << "f", "o", "r", "m", "a", "l" >>

\* JSON values of a decoded content: a list, a string, a number
JList(elems) == [type |-> "list", elems |-> elems]

JStr(chars) == [type |-> "str", elems |-> chars]

JNum == [type |-> "num", elems |-> << >>]

\* len(items): << n >>, or << >> when the value has no len() (TypeError)
PyLen(v) == IF v.type \in {"list", "str"} THEN << Len(v.elems) >> ELSE << >>

\* items[:4]
FirstFour(items) == SubSeq(items, 1, IF Len(items) < 4 THEN Len(items) ELSE 4)

\* The aesthetic-to-items table of _create_fallback_plan: items, reasoning
FallbackTable(parsed_prompt) ==
    LET aesthetic_lower == lower(parsed_prompt.aesthetic)
    IN  IF Contains(aesthetic_lower, s_korean) \/ Contains(aesthetic_lower, s_minimal)
            THEN [items |-> << "oversized t-shirt", "straight pants", "white sneakers" >>,
                  reasoning |-> << "Korean minimal aesthetic with clean lines and neutral colors" >>]
        ELSE IF Contains(aesthetic_lower, s_street)
            THEN [items |-> << "graphic hoodie", "cargo pants", "chunky sneakers" >>,
                  reasoning |-> << "Streetwear with bold graphics and utility elements" >>]
        ELSE IF Contains(aesthetic_lower, s_y2k)
            THEN [items |-> << "crop top", "low-rise jeans", "platform shoes" >>,
                  reasoning |-> << "Y2K aesthetic with 2000s-inspired pieces" >>]
        ELSE IF Contains(aesthetic_lower, s_vintage)
            THEN [items |-> << "vintage blouse", "high-waisted skirt" >>,
                  reasoning |-> << "Vintage style with classic silhouettes" >>]
        ELSE IF Contains(aesthetic_lower, s_athle) \/ Contains(aesthetic_lower, s_sport)
            THEN [items |-> << "sports top", "leggings", "running shoes" >>,
                  reasoning |-> << "Athleisure combining athletic and casual style" >>]
        ELSE IF Contains(aesthetic_lower, s_office) \/ Contains(aesthetic_lower, s_formal)
            THEN [items |-> << "button-down shirt", "chino pants" >>,
                  reasoning |-> << "Office wear balancing professionalism and comfort" >>]
        ELSE [items |-> << "casual top", "comfortable pants" >>,
              reasoning |-> << "Casual outfit for " >> \o parsed_prompt.aesthetic
                               \o << " aesthetic" >>]

\* if "shoes" in parsed_prompt.categories and len(items) == 2: items.append(...)
AppendShoes(parsed_prompt, items) ==
    IF s_shoes \in Range(parsed_prompt.categories) /\ Len(items) = 2
        THEN items \o << "casual shoes" >>
        ELSE items

\* _create_fallback_plan(parsed_prompt): items[:4], reasoning, False
_create_fallback_plan(parsed_prompt) ==
    LET row == FallbackTable(parsed_prompt)
    IN  [items |-> JList(FirstFour(AppendShoes(parsed_prompt, row.items))),
         reasoning |-> row.reasoning, is_cached |-> FALSE]

\* The ParsedPrompt of the plan requests: two that derive the same cache key
\* (case, outer whitespace, defaults and order of categories differ) and one
\* that derives another key.
PlanQueries ==
    { PlanRequest(<< "V", "i", "n", "t", "a", "g", "e" >>, NoneStr, NoneStr,
                  << s_top, s_shoes >>),
      PlanRequest(<< "v", "i", "n", "t", "a", "g", "e", " " >>, s_unisex, << >>,
                  << s_shoes, s_top >>),
      PlanRequest(<< "c", "o", "z", "y" >>, NoneStr, NoneStr, << s_top, s_bottom >>) }

\* json.dumps(data)
json_dumps(data) == [json |-> data]

ItemNames == << "i1", "i2", "i3", "i4", "i5" >>

\* The plan_data a decodable content of the completion API may hold: no
\* "items", items that are a number, lists of one or five items, and plans the
\* count check accepts: lists of two and of four items (one without
\* "reasoning") for a longer aesthetic, items that are a three-character
\* string for a short one.
PlanApiData(query) ==
    { [reasoning |-> << "r0" >>],
      [items |-> JNum, reasoning |-> << "rn" >>],
      [items |-> JList(SubSeq(ItemNames, 1, 1)), reasoning |-> << "r1" >>],
      [items |-> JList(SubSeq(ItemNames, 1, 5)), reasoning |-> << "r5" >>] }
    \cup ( IF Len(query.aesthetic) > 4
               THEN { [items |-> JList(SubSeq(ItemNames, 1, 2)), reasoning |-> << "r2" >>],
                      [items |-> JList(SubSeq(ItemNames, 1, 4))] }
               ELSE { [items |-> JStr(<< "a", "b", "c" >>), reasoning |-> << "rs" >>] } )

PlanApiResponses(query) ==
    { [kind |-> "error", data |-> << >>], [kind |-> "not_json", data |-> << >>] }
    \cup { [kind |-> "json", data |-> << d >>] : d \in PlanApiData(query) }

\* plan_data.get("reasoning", "")
GetReasoning(plan_data) ==
    IF "reasoning" \in DOMAIN plan_data THEN plan_data.reasoning ELSE << >>

\* 2 <= len(items) <= 4
ValidCount_upper_only(n) == n <= 4

ValidCount_lower_only(n) == 2 <= n

ValidCount(n) == 2 <= n /\ n <= 4

IdlePlanReq ==
    [pc |-> "idle", query |-> << >>, cache_key |-> << >>, plan |-> << >>,
     ret |-> << >>, raised |-> FALSE, source |-> "none", failure |-> "none",
     api_calls |-> 0, hit |-> << >>, promised |-> << >>,
     api_count |-> << >>]

\* return items, reasoning, is_cached
PlanReturn(req, items, reasoning, is_cached, source) ==
    [req EXCEPT !.pc = "done", !.source = source, !.plan = << >>,
                !.ret = << [items |-> items, reasoning |-> reasoning,
                            is_cached |-> is_cached] >>]

\* PlanService._get_cached(cache_key): (items, reasoning), or None (<< >>)
\* without a client, when get raises, when there is no value, when the value
\* is not JSON or holds no "items" or no "reasoning"
PlanService_get_cached(cache_key, raises) ==
    IF plan_redis_client = None THEN << >>
    ELSE IF raises THEN << >>
    ELSE IF cache_key \notin DOMAIN plan_redis THEN << >>
    ELSE LET cached == plan_redis[cache_key].value
         IN  IF ~IsJson(cached) THEN << >>
             ELSE LET data == json_loads(cached)
                  IN  IF {"items", "reasoning"} \subseteq DOMAIN data
                          THEN << [items |-> data.items, reasoning |-> data.reasoning] >>
                          ELSE << >>

\* The entry plan_redis_client.get(cache_key) itself answered with, if any.
PlanGetReply(cache_key, raises) ==
    IF plan_redis_client # None /\ ~raises /\ cache_key \in DOMAIN plan_redis
        THEN << [key |-> cache_key, entry |-> plan_redis[cache_key]] >>
        ELSE << >>

\* redis_client.set(cache_key, json.dumps(data)): no expiry (ttl -1)
PlanSetEntry_setex(req) ==
    [value |-> json_dumps(req.plan[1]), ttl |-> redis_ttl,
     validated |-> req.failure = "none" /\ req.api_calls > 0]

PlanSetEntry(req) ==
    [value |-> json_dumps(req.plan[1]), ttl |-> -1,
     validated |-> req.failure = "none" /\ req.api_calls > 0]

\* PlanService._set_cache(cache_key, items, reasoning): the cache after it
PlanService_set_cache(req, raises) ==
    IF plan_redis_client = None \/ raises THEN plan_redis
    ELSE [k \in DOMAIN plan_redis \cup {req.cache_key} |->
             IF k = req.cache_key THEN PlanSetEntry(req) ELSE plan_redis[k]]

\* The except clauses: return self._create_fallback_plan(parsed_prompt)
PlanOnTryFailure_cached(req, failure) ==
    LET fallback == _create_fallback_plan(req.query)
    IN  [req EXCEPT !.failure = failure, !.pc = "set",
                    !.plan = << [items |-> fallback.items,
                                 reasoning |-> fallback.reasoning] >>]

PlanOnTryFailure(req, failure) ==
    LET fallback == _create_fallback_plan(req.query)
    IN  PlanReturn([req EXCEPT !.failure = failure], fallback.items,
                   fallback.reasoning, fallback.is_cached, "fallback")

\* A request arrives: cache_key = self._generate_cache_key(parsed_prompt), and
\* the cache is asked.
PlanStart(r) ==
    /\ plans[r].pc = "idle"
    /\ \E query \in PlanQueries :
          LET cache_key == PlanService_generate_cache_key(query)
          IN  plans' = [plans EXCEPT ![r] =
                  [IdlePlanReq EXCEPT
                      !.pc = "get", !.query = query, !.cache_key = cache_key,
                      !.promised = IF cache_key \in DOMAIN plan_redis
                                       THEN << plan_redis[cache_key].value >>
                                       ELSE << >>]]
    /\ UNCHANGED << plan_redis_client, plan_redis, fpQuery, fpPlan, notPlan >>

\* cached = await self._get_cached(cache_key); if cached: return items, reasoning, True
PlanCacheGet(r) ==
    /\ plans[r].pc = "get"
    /\ \E raises \in Raises(plan_redis_client) :
          LET cached == PlanService_get_cached(plans[r].cache_key, raises)
              asked == [plans[r] EXCEPT !.hit = PlanGetReply(plans[r].cache_key, raises)]
          IN  plans' = [plans EXCEPT ![r] =
                  IF cached # << >>
                      THEN PlanReturn(asked, cached[1].items, cached[1].reasoning,
                                      TRUE, "cache")
                      ELSE [asked EXCEPT !.pc = "api"]]
    /\ UNCHANGED << plan_redis_client, plan_redis, fpQuery, fpPlan, notPlan >>

\* The try block up to its cache write: the completion API is called, the
\* content decoded, items and reasoning taken and the item count validated.
PlanApiCall(r) ==
    /\ plans[r].pc = "api"
    /\ \E response \in PlanApiResponses(plans[r].query) :
          LET called == [plans[r] EXCEPT !.api_calls = @ + 1]
          IN  plans' = [plans EXCEPT ![r] =
                  IF response.kind = "error" THEN PlanOnTryFailure(called, "exception")
                  ELSE IF response.kind = "not_json" THEN PlanOnTryFailure(called, "json")
                  ELSE LET plan_data == response.data[1]
                           counted == IF "items" \in DOMAIN plan_data
                                          THEN [called EXCEPT
                                                   !.api_count = PyLen(plan_data.items)]
                                          ELSE called
                       IN  IF "items" \notin DOMAIN plan_data
                               THEN PlanOnTryFailure(called, "exception")
                           ELSE IF PyLen(plan_data.items) = << >>
                               THEN PlanOnTryFailure(called, "exception")
                           ELSE IF ~ValidCount(PyLen(plan_data.items)[1])
                               THEN PlanOnTryFailure(counted, "count")
                           ELSE [counted EXCEPT
                                    !.pc = "set",
                                    !.plan = << [items |-> plan_data.items,
                                                 reasoning |-> GetReasoning(plan_data)] >>]]
    /\ UNCHANGED << plan_redis_client, plan_redis, fpQuery, fpPlan, notPlan >>

\* await self._set_cache(cache_key, items, reasoning); return items, reasoning, False
PlanCacheSet(r) ==
    /\ plans[r].pc = "set"
    /\ \E raises \in Raises(plan_redis_client) :
          plan_redis' = PlanService_set_cache(plans[r], raises)
    /\ plans' = [plans EXCEPT ![r] =
                    PlanReturn(plans[r], plans[r].plan[1].items,
                               plans[r].plan[1].reasoning, FALSE, "api")]
    /\ UNCHANGED << plan_redis_client, fpQuery, fpPlan, notPlan >>

\* The caller has its answer; the slot is free for the next request.
PlanFinish(r) ==
    /\ plans[r].pc = "done"
    /\ plans' = [plans EXCEPT ![r] = IdlePlanReq]
    /\ UNCHANGED << plan_redis_client, plan_redis, fpQuery, fpPlan, notPlan >>

\* A long time passes: Redis drops every entry that has a time to live.
PlanTick ==
    /\ DOMAIN plans # {}
    /\ plan_redis' = [k \in { j \in DOMAIN plan_redis : plan_redis[j].ttl = -1 } |->
                         plan_redis[k]]
    /\ UNCHANGED << plan_redis_client, plans, fpQuery, fpPlan, notPlan >>

\* _create_fallback_plan applied to a ParsedPrompt on its own.
PlanFallback ==
    /\ fpQuery # << >>
    /\ fpPlan = << >>
    /\ fpPlan' = << _create_fallback_plan(fpQuery[1]) >>
    /\ UNCHANGED << plan_redis_client, plan_redis, plans, fpQuery, notPlan >>

\* The fragments the aesthetics of the fallback's inputs are made of.
PlanFragments ==
    { s_korean, s_minimal, s_street, s_y2k, s_vintage, s_athle, s_sport,
      s_office, s_formal, << "Y", "2", "K" >>, << "c", "o", "z", "y" >>, << " " >> }

RECURSIVE AestheticsOfLen(_)
AestheticsOfLen(n) ==
    IF n = 0 THEN { << >> }
    ELSE { a \o f : a \in AestheticsOfLen(n - 1), f \in PlanFragments }

FallbackQueries ==
    { PlanRequest(a, NoneStr, NoneStr, c) :
        a \in UNION { AestheticsOfLen(n) : n \in 0..MaxPlanFrags },
        c \in { << s_top, s_bottom >>, << s_shoes >>, << >>,
                << s_top, s_bottom, s_shoes, s_accessories >> } }

\* get_plan_service(): the service with its Redis connection, or with
\* redis_client None after a failed connect; or the fallback planner on its own.
InitPlan ==
    /\ IdleEmbed
    /\ IdleCursor
    /\ IdleSingleton
    /\ IdleSearch
    /\ IdleCoherence
    /\ IdleClip
    /\ IdleAesthetic
    /\ IdleScore
    /\ IdleRetry
    /\ IdleFallback
    /\ IdleParse
    /\ IdlePlanKey
    /\ plan_redis = [k \in {} |-> 0]
    /\ fpPlan = << >>
    /\ \/ /\ plan_redis_client \in {None, "client"}
          /\ plans = [r \in Reqs |-> IdlePlanReq]
          /\ fpQuery = << >>
       \/ /\ plan_redis_client = None
          /\ plans = [r \in {} |-> 0]
          /\ \E q \in FallbackQueries : fpQuery = << q >>

NextPlan ==
    \/ \E r \in DOMAIN plans : PlanStart(r)
    \/ \E r \in DOMAIN plans : PlanCacheGet(r)
    \/ \E r \in DOMAIN plans : PlanApiCall(r)
    \/ \E r \in DOMAIN plans : PlanCacheSet(r)
    \/ \E r \in DOMAIN plans : PlanFinish(r)
    \/ PlanTick
    \/ PlanFallback

SpecPlan == InitPlan /\ [][NextPlan]_vars

(***************************************************************************)
(* Planner: properties                                                     *)
(***************************************************************************)
\* A request that got, from the completion API, items whose count is not
\* within 2..4 has returned the fallback plan of its ParsedPrompt, not cached.
OutsideGoesToFallback ==
    \A r \in DOMAIN plans :
        LET q == plans[r]
        IN  (q.api_count # << >> /\ q.api_count[1] \notin 2..4) =>
               /\ q.pc = "done"
               /\ ~q.raised
               /\ q.api_calls = 1
               /\ q.source = "fallback"
               /\ q.ret = << _create_fallback_plan(q.query) >>
               /\ ~q.ret[1].is_cached

\* The fallback plan, wherever it was computed, is a list of 2 to 4 items.
FallbackPlanSized ==
    /\ \A i \in 1..Len(fpPlan) :
          /\ fpPlan[i].items.type = "list"
          /\ Len(fpPlan[i].items.elems) \in 2..4
          /\ ~fpPlan[i].is_cached
    /\ \A r \in DOMAIN plans :
          plans[r].source = "fallback" =>
             /\ plans[r].ret[1].items.type = "list"
             /\ Len(plans[r].ret[1].items.elems) \in 2..4

\* The step in which a request ends in the fallback leaves the cache alone.
FallbackWritesNothing ==
    \A r \in DOMAIN plans :
        (plans'[r].source = "fallback" /\ plans[r].source # "fallback")
        => plan_redis' = plan_redis

\* C11: when the completion API returns a plan whose item count is outside
\* [2,4], plan_outfit returns the fallback plan, flagged non-cached, and writes
\* nothing to the cache; and the fallback plan has between 2 and 4 items for
\* every ParsedPrompt.
C11_PlanValidation ==
    [] (OutsideGoesToFallback /\ FallbackPlanSized) /\ [][FallbackWritesNothing]_vars

\* The API answered one request with five items and another with one, both
\* ended in the fallback plan, and the cache of the working client is empty.
C11_Witness ==
    \E r1, r2 \in DOMAIN plans :
        /\ plan_redis_client # None
        /\ plans[r1].pc = "done" /\ plans[r1].api_count = << 5 >>
        /\ plans[r2].pc = "done" /\ plans[r2].api_count = << 1 >>
        /\ plans[r1].ret[1].items = JList(<< "vintage blouse", "high-waisted skirt",
                                            "casual shoes" >>)
        /\ plans[r2].ret[1].items = JList(<< "casual top", "comfortable pants" >>)
        /\ plan_redis = [k \in {} |-> 0]

\* len(items) of a plan
ItemCount(items) == IF PyLen(items) = << >> THEN -1 ELSE PyLen(items)[1]

StoredPlan(value) ==
    [items |-> json_loads(value).items, reasoning |-> json_loads(value).reasoning,
     is_cached |-> TRUE]

\* C13 as stated: a request that arrives when a plan is stored under its key
\* returns exactly that plan with cached = true, without calling the API.
C13_Original ==
    \A r \in DOMAIN plans :
        LET q == plans[r]
        IN  (q.pc = "done" /\ q.promised # << >>) =>
               /\ q.ret = << StoredPlan(q.promised[1]) >>
               /\ q.api_calls = 0

\* Every entry is a validated API plan stored without expiry, and a request
\* whose cache read answered returns what the read answered, cached, without
\* an API call.
StoredForGood ==
    /\ \A k \in DOMAIN plan_redis :
          /\ plan_redis[k].ttl = -1
          /\ plan_redis[k].validated
    /\ \A r \in DOMAIN plans :
          LET q == plans[r]
          IN  q.hit # << >> =>
                 /\ q.pc = "done"
                 /\ q.hit[1].key = PlanService_generate_cache_key(q.query)
                 /\ q.ret = << StoredPlan(q.hit[1].entry.value) >>
                 /\ q.api_calls = 0

\* An entry is never removed; it changes only when a request stores the valid
\* plan it obtained from the API under the same key.
NeverRemoved ==
    \A k \in DOMAIN plan_redis :
        /\ k \in DOMAIN plan_redis'
        /\ plan_redis'[k] # plan_redis[k] =>
              \E r \in DOMAIN plans :
                  /\ plans[r].pc = "set" /\ plans[r].cache_key = k
                  /\ plans'[r].source = "api"
                  /\ plan_redis'[k].value = json_dumps(plans[r].plan[1])

\* C13 (amended): a valid plan obtained from the completion API is stored
\* without expiry and an entry, once stored, is never removed, only replaced
\* by another valid API plan for the same key; every later request with that
\* key whose cache read succeeds returns exactly the items and reasoning then
\* stored, with cached = true and without calling the completion API.
C13_Permanent == [] StoredForGood /\ [][NeverRemoved]_vars

\* A request whose prompt differs in spelling from the one that stored the
\* plan is answered from the cache with the stored four-item plan, whose
\* reasoning is the default.
C13_Witness ==
    \E r \in DOMAIN plans :
        /\ plans[r].pc = "done"
        /\ plans[r].promised # << >>
        /\ plans[r].ret[1].is_cached
        /\ plans[r].ret[1].reasoning = << >>
        /\ Len(plans[r].ret[1].items.elems) = 4
        /\ plans[r].api_calls = 0

(***************************************************************************)
(* Both services with a cache backend that is missing, unreachable, or     *)
(* holding values they cannot decode                                       *)
(***************************************************************************)
\* Values another writer left under the parse keys: not JSON, or JSON that
\* does not build a ParsedPrompt.
UndecodableParseValues ==
    { NotJson,
      model_dump_json([aesthetic |-> << "x" >>, budget |-> << -1 >>, size |-> << "M" >>,
                       gender |-> s_male, occasion |-> NoneStr,
                       categories |-> << s_top >>]) }

\* Values another writer left under the plan keys: not JSON, or JSON without "items".
UndecodablePlanValues == { NotJson, json_dumps([reasoning |-> << "r" >>]) }

ForeignEntry(value) == [value |-> value, ttl |-> -1, prompt |-> << >>, validated |-> FALSE]

\* One of the two services runs: without a client (connecting failed), with a
\* client whose server cannot be reached, or with a working client and
\* undecodable values under the keys of its requests.
InitDegraded ==
    /\ IdleEmbed
    /\ IdleCursor
    /\ IdleSingleton
    /\ IdleSearch
    /\ IdleCoherence
    /\ IdleClip
    /\ IdleAesthetic
    /\ IdleScore
    /\ IdleRetry
    /\ IdleFallback
    /\ IdlePlanKey
    /\ fpQuery = << >>
    /\ fpPlan = << >>
    /\ \/ /\ plans = [r \in {} |-> 0]
          /\ plan_redis_client = None
          /\ plan_redis = [k \in {} |-> 0]
          /\ reqs = [r \in Reqs |-> IdleReq]
          /\ \/ redis_client \in {None, "unreachable"} /\ redis = [k \in {} |-> 0]
             \/ /\ redis_client = "client"
                /\ \E v \in UndecodableParseValues :
                      redis = [k \in { _generate_cache_key(p) : p \in ParsePrompts } |->
                                  ForeignEntry(v)]
       \/ /\ reqs = [r \in {} |-> 0]
          /\ redis_client = None
          /\ redis = [k \in {} |-> 0]
          /\ plans = [r \in Reqs |-> IdlePlanReq]
          /\ \/ plan_redis_client \in {None, "unreachable"} /\ plan_redis = [k \in {} |-> 0]
             \/ /\ plan_redis_client = "client"
                /\ \E v \in UndecodablePlanValues :
                      plan_redis =
                          [k \in { PlanService_generate_cache_key(q) : q \in PlanQueries } |->
                              ForeignEntry(v)]

NextDegraded ==
    \/ \E r \in DOMAIN reqs : Start(r)
    \/ \E r \in DOMAIN reqs : CacheGet(r)
    \/ \E r \in DOMAIN reqs : ApiCall(r)
    \/ \E r \in DOMAIN reqs : CacheSet(r)
    \/ \E r \in DOMAIN reqs : Finish(r)
    \/ Expire
    \/ \E r \in DOMAIN plans : PlanStart(r)
    \/ \E r \in DOMAIN plans : PlanCacheGet(r)
    \/ \E r \in DOMAIN plans : PlanApiCall(r)
    \/ \E r \in DOMAIN plans : PlanCacheSet(r)
    \/ \E r \in DOMAIN plans : PlanFinish(r)
    \/ PlanTick

SpecDegraded == InitDegraded /\ [][NextDegraded]_vars

\* The cache was unavailable to a parse request: there is no client, the
\* server cannot be reached, or the value read does not build a ParsedPrompt.
ParseCacheUnavailable(q) ==
    \/ redis_client \in {None, "unreachable"}
    \/ /\ q.hit # << >>
       /\ \/ ~IsJson(q.hit[1].entry.value)
          \/ ~ValidParsedPrompt(json_loads(q.hit[1].entry.value))

\* The cache was unavailable to a plan request.
PlanCacheUnavailable(q) ==
    \/ plan_redis_client \in {None, "unreachable"}
    \/ /\ q.hit # << >>
       /\ \/ ~IsJson(q.hit[1].entry.value)
          \/ ~({"items", "reasoning"} \subseteq DOMAIN json_loads(q.hit[1].entry.value))

\* C14: a request to which the cache backend was unavailable (no client after
\* a failed connect, every get and set raising, or a stored value that cannot
\* be decoded) raises nothing and returns what it would return with an empty
\* cache that discards writes: after one completion-API call, the API's
\* validated result or else the fallback, flagged non-cached; and without a
\* reachable server nothing is stored.
C14_CacheUnavailable ==
    /\ \A r \in DOMAIN reqs :
          LET q == reqs[r]
          IN  /\ ~q.raised
              /\ (ParseCacheUnavailable(q) /\ q.pc \in {"api", "set", "done"}) =>
                    /\ q.source # "cache"
                    /\ q.pc = "api" => q.api_calls = 0
                    /\ q.pc = "done" =>
                          /\ q.api_calls = 1
                          /\ ~q.ret[1].is_cached
                          /\ IF q.failure = "none"
                                 THEN /\ q.source = "api"
                                      /\ q.ret[1].parsed \in ApiData(q.prompt)
                                      /\ ValidParsedPrompt(q.ret[1].parsed)
                                 ELSE q.ret[1].parsed = _create_fallback_parse(q.prompt).value
    /\ \A r \in DOMAIN plans :
          LET q == plans[r]
          IN  /\ ~q.raised
              /\ (PlanCacheUnavailable(q) /\ q.pc \in {"api", "set", "done"}) =>
                    /\ q.source # "cache"
                    /\ q.pc = "api" => q.api_calls = 0
                    /\ q.pc = "done" =>
                          /\ q.api_calls = 1
                          /\ IF q.failure = "none"
                                 THEN /\ q.source = "api"
                                      /\ ~q.ret[1].is_cached
                                      /\ \E d \in PlanApiData(q.query) :
                                            /\ "items" \in DOMAIN d
                                            /\ q.ret[1].items = d.items
                                            /\ q.ret[1].reasoning = GetReasoning(d)
                                 ELSE q.ret = << _create_fallback_plan(q.query) >>
    /\ redis_client \in {None, "unreachable"} => redis = [k \in {} |-> 0]
    /\ plan_redis_client \in {None, "unreachable"} => plan_redis = [k \in {} |-> 0]

\* A parse request read a value that is not JSON and returned the API's
\* result; another, with a different prompt, read one and ended in the fallback.
C14_Witness ==
    \E r1, r2 \in DOMAIN reqs :
        /\ reqs[r1].pc = "done" /\ reqs[r2].pc = "done"
        /\ reqs[r1].hit # << >> /\ reqs[r1].hit[1].entry.value = NotJson
        /\ reqs[r2].hit # << >> /\ reqs[r2].hit[1].entry.value = NotJson
        /\ reqs[r1].source = "api"
        /\ reqs[r2].source = "fallback"

(***************************************************************************)
(* score_service.py: ScoreService.score_outfits                            *)
(***************************************************************************)
\* Most outfits in a scoring request.
MaxOutfits == 2

\* Python floats: a finite number (an exact rational), nan, inf
FNum(n, d) == [type |-> "num", num |-> n, den |-> d]

FNaN == [type |-> "nan"]

FInf == [type |-> "inf"]

\* a < b on floats: every comparison with nan is false
FloatLess(a, b) ==
    IF a.type = "nan" \/ b.type = "nan" THEN FALSE
    ELSE IF a.type = "inf" THEN FALSE
    ELSE IF b.type = "inf" THEN TRUE
    ELSE a.num * b.den < b.num * a.den

\* min(10.0, x): x when x < 10.0, else 10.0
Min10(x) == IF FloatLess(x, FNum(10, 1)) THEN x ELSE FNum(10, 1)

\* max(1.0, y): y when y > 1.0, else 1.0
Max1(y) == IF FloatLess(FNum(1, 1), y) THEN y ELSE FNum(1, 1)

\* max(1.0, min(10.0, x))
Clamp_upper_only(x) == Min10(x)

Clamp(x) == Max1(Min10(x))

\* The JSON values an entry of "scores" may be: numbers (also the NaN and
\* Infinity literals json.loads accepts), strings, null, true.
ScoreValues ==
    { FNum(-3, 1), FNum(15, 2), FNum(12, 1), FNaN, FInf,
      [type |-> "str", chars |-> << "8" >>],
      [type |-> "str", chars |-> << "a", "b", "c" >>],
      [type |-> "null"], [type |-> "true"] }

\* float(s): << the float >>, or << >> when it raises (TypeError, ValueError)
float(s) ==
    IF s.type \in {"num", "nan", "inf"} THEN << s >>
    ELSE IF s.type = "true" THEN << FNum(1, 1) >>
    ELSE IF s.type = "str" /\ s.chars # << >> /\ \A i \in 1..Len(s.chars) : IsDigit(s.chars[i])
        THEN << FNum(int(s.chars), 1) >>
    ELSE << >>

RECURSIVE ScoreListsOfLen(_)
ScoreListsOfLen(n) ==
    IF n = 0 THEN { << >> }
    ELSE { l \o << v >> : l \in ScoreListsOfLen(n - 1), v \in ScoreValues }

\* What the completion API may answer: the call raises, the content is not
\* JSON, the content is a JSON list, an object without "scores", an object
\* whose "scores" is a number, a string of digits, or a list of values.
ScoreApiResponses ==
    { [kind |-> "error"], [kind |-> "not_json"], [kind |-> "json_list"],
      [kind |-> "json", result |-> [other |-> 0]],
      [kind |-> "json", result |-> [scores |-> [type |-> "num"]]],
      [kind |-> "json", result |-> [scores |-> [type |-> "str", chars |-> << "5", "7" >>]]] }
    \cup { [kind |-> "json", result |-> [scores |-> [type |-> "list", elems |-> l]]] :
             l \in UNION { ScoreListsOfLen(n) : n \in 0..(MaxOutfits + 1) } }

\* [5.0] * num_outfits
Neutral(n) == [i \in 1..n |-> FNum(5, 1)]

\* result.get("scores", [])
GetScores(res) == IF "scores" \in DOMAIN res THEN res.scores ELSE [type |-> "list", elems |-> << >>]

\* the scores of the list comprehension's iteration: the elements of a list,
\* the characters of a string
Iterate(scores) ==
    IF scores.type = "str" THEN [i \in 1..Len(scores.chars) |->
                                    [type |-> "str", chars |-> << scores.chars[i] >>]]
    ELSE scores.elems

\* The value score_outfits returns for a response.
ScoreResult(num_outfits, response) ==
    IF response.kind \in {"error", "not_json", "json_list"} THEN Neutral(num_outfits)
    ELSE LET scores == GetScores(response.result)
         IN  IF scores.type \notin {"list", "str"} THEN Neutral(num_outfits)
             ELSE IF Len(Iterate(scores)) # num_outfits THEN Neutral(num_outfits)
             ELSE LET items == Iterate(scores)
                  IN  IF \E i \in 1..Len(items) : float(items[i]) = << >>
                          THEN Neutral(num_outfits)
                          ELSE [i \in 1..Len(items) |-> Clamp(float(items[i])[1])]

\* A request with num_outfits outfits: the prompt is built and the completion
\* API called.
ScoreCall ==
    /\ scPc = "request"
    /\ \E response \in ScoreApiResponses : scResponse' = << response >>
    /\ scPc' = "called"
    /\ UNCHANGED << scN, scScores, scRaised, notScore >>

\* The rest of score_outfits: decode, validate, bound, or the neutral scores.
ScoreReturn ==
    /\ scPc = "called"
    /\ scScores' = << ScoreResult(scN, scResponse[1]) >>
    /\ scPc' = "done"
    /\ UNCHANGED << scN, scResponse, scRaised, notScore >>

InitScore ==
    /\ IdleEmbed
    /\ IdleCursor
    /\ IdleSingleton
    /\ IdleSearch
    /\ IdleCoherence
    /\ IdleClip
    /\ IdleAesthetic
    /\ IdleRetry
    /\ IdleFallback
    /\ IdleParse
    /\ IdlePlanKey
    /\ IdlePlan
    /\ scN \in 0..MaxOutfits
    /\ scPc = "request"
    /\ scResponse = << >>
    /\ scScores = << >>
    /\ scRaised = FALSE

NextScore == ScoreCall \/ ScoreReturn

SpecScore == InitScore /\ [][NextScore]_vars

(***************************************************************************)
(* Scorer: properties                                                      *)
(***************************************************************************)
\* A JSON value that is a number, or text or a truth value Python's float() reads as one.
Numeric(v) ==
    \/ v.type \in {"num", "nan", "inf", "true"}
    \/ v.type = "str" /\ v.chars \in { << "8" >>, << "5" >>, << "7" >> }

\* The response is no usable list of num_outfits scores.
ScoringFailed(n, response) ==
    \/ response.kind # "json"
    \/ /\ "scores" \notin DOMAIN response.result
       /\ n # 0
    \/ /\ "scores" \in DOMAIN response.result
       /\ \/ response.result.scores.type = "num"
          \/ /\ response.result.scores.type \in {"list", "str"}
             /\ \/ Len(Iterate(response.result.scores)) # n
                \/ \E i \in 1..Len(Iterate(response.result.scores)) :
                      ~Numeric(Iterate(response.result.scores)[i])

\* C15: for a request with N outfits score_outfits raises nothing and returns
\* exactly N scores, each a number within [1.0, 10.0]; when the API call
\* failed, the content could not be decoded, the number of scores is not N or
\* a score is not numeric, the scores are N times 5.0.
C15_Scoring ==
    scPc = "done" =>
       /\ ~scRaised
       /\ Len(scScores[1]) = scN
       /\ \A i \in 1..scN :
             /\ scScores[1][i].type = "num"
             /\ scScores[1][i].num >= scScores[1][i].den
             /\ scScores[1][i].num <= 10 * scScores[1][i].den
       /\ ScoringFailed(scN, scResponse[1]) => scScores[1] = Neutral(scN)

\* Two outfits scored -3 and NaN by the API get 1.0 and 10.0.
C15_Witness ==
    /\ scPc = "done"
    /\ scN = 2
    /\ scResponse[1].kind = "json"
    /\ "scores" \in DOMAIN scResponse[1].result
    /\ scResponse[1].result.scores.type = "list"
    /\ Len(scResponse[1].result.scores.elems) = 2
    /\ scResponse[1].result.scores.elems[1].type = "num"
    /\ scResponse[1].result.scores.elems[1].num = -3
    /\ scResponse[1].result.scores.elems[2].type = "nan"
    /\ scScores = << << FNum(1, 1), FNum(10, 1) >> >>

(***************************************************************************)
(* Concurrency and retry of the completion-API calls: properties           *)
(***************************************************************************)
\* C16: among concurrent requests with the same cache key, at most one
\* completion-API computation for that key is in flight at any time
\* (parse_prompt and plan_outfit alike).
C16_SingleFlight ==
    /\ \A r1, r2 \in DOMAIN reqs :
          (r1 # r2 /\ reqs[r1].pc = "api" /\ reqs[r2].pc = "api")
          => reqs[r1].cache_key # reqs[r2].cache_key
    /\ \A r1, r2 \in DOMAIN plans :
          (r1 # r2 /\ plans[r1].pc = "api" /\ plans[r2].pc = "api")
          => plans[r1].cache_key # plans[r2].cache_key

\* C17: the completion-API call of the parser goes through the retry
\* executor with the LLM_API policy: a request ends in the fallback after a
\* raising API call only when max_retries + 1 calls were made, so that a call
\* failing once and succeeding on the next attempt yields the API's result.
C17_RetryCoverage ==
    \A r \in DOMAIN reqs :
        (reqs[r].pc = "done" /\ reqs[r].failure = "api_error")
        => reqs[r].api_calls = LLM_API.max_retries + 1

(***************************************************************************)
(* similarity_service.py: SimilarityService.search_similar, called by      *)
(* routes/similarity.py: search_similar_products                           *)
(* An Optional value is << >> (None) or << v >>; prices, distances and     *)
(* similarities are in hundredths.                                         *)
(***************************************************************************)
\* Largest limit of a search request.
MaxLimit == 2

\* bool(x) of an Optional string: None and "" are false
Truthy(opt) == opt # << >> /\ opt[1] # ""

\* bool(x) of an Optional list: None and [] are false
TruthyList(opt) == opt # << >> /\ opt[1] # << >>

\* x is not None

IsNotNone(opt) == opt # << >>

Product(id, category, price, dist) ==
    [id |-> id, category |-> category, price |-> price, dist |-> dist]

\* The products table: rows in the store's natural order; dist is the cosine
\* distance of image_embedding to the target vector, << >> when
\* image_embedding is NULL.
Tables ==
    { << Product("A", "top", 1000, << 30 >>), Product("B", "shoes", 2000, << 10 >>),
         Product("C", "top", 2000, << 10 >>), Product("D", "top", 500, << 50 >>) >>,
      << Product("A", "top", 1000, << 30 >>), Product("E", "shoes", 1000, << >>),
         Product("C", "top", 2000, << 10 >>) >>,
      << >> }

SearchRequests ==
    [ text : { << >>, << "" >>, << "t" >> },
      image_url : { << >>, << "u" >> },
      embedding : { << >>, << << >> >>, << << 1 >> >> },
      category : { << >>, << "" >>, << "top" >> },
      min_price : { << >>, << 0 >>, << 1500 >> },
      max_price : { << >>, << 1500 >> },
      limit : 1..MaxLimit ]

\* Step 1 of search_similar when no embedding came with the request: which
\* encoder call follows, or "invalid" (raise ValueError).
Resolve_text_default(request) ==
    IF Truthy(request.image_url) THEN "encode_image" ELSE "encode_text"

Resolve_text_first(request) ==
    IF Truthy(request.text) THEN "encode_text"
    ELSE IF Truthy(request.image_url) THEN "encode_image"
    ELSE "invalid"

Resolve(request) ==
    IF Truthy(request.image_url) THEN "encode_image"
    ELSE IF Truthy(request.text) THEN "encode_text"
    ELSE "invalid"

\* The WHERE clause: the filters that were appended, joined by AND
Where_no_max(row, request) ==
    /\ Truthy(request.category) => row.category = request.category[1]
    /\ IsNotNone(request.min_price) => row.price >= request.min_price[1]

Where(row, request) ==
    /\ Truthy(request.category) => row.category = request.category[1]
    /\ IsNotNone(request.min_price) => row.price >= request.min_price[1]
    /\ IsNotNone(request.max_price) => row.price <= request.max_price[1]

\* ORDER BY image_embedding <=> target ASC: NULL distances come last
DistLE(a, b) == b.dist = << >> \/ (a.dist # << >> /\ a.dist[1] <= b.dist[1])

\* The row lists fetchall() may return for the query: the rows the WHERE
\* clause keeps, in ascending distance (ties in any order), at most LIMIT.
FetchAll(table, request) ==
    LET kept == { i \in 1..Len(table) : Where(table[i], request) }
        n == Cardinality(kept)
        m == IF n < request.limit THEN n ELSE request.limit
        orders == { f \in [1..n -> kept] :
                      /\ \A j, k \in 1..n : f[j] = f[k] => j = k
                      /\ \A j, k \in 1..n : j < k => DistLE(table[f[j]], table[f[k]]) }
    IN  { [j \in 1..m |-> table[f[j]]] : f \in orders }

\* ProductSimilarity(id=str(r[0]), ..., similarity=float(r[4])) for every
\* row: << the list >>, or << >> when float(None) raises
ToProductSimilarity(rows) ==
    IF \E j \in 1..Len(rows) : rows[j].dist = << >> THEN << >>
    ELSE << [j \in 1..Len(rows) |->
               [id |-> rows[j].id, price |-> rows[j].price,
                similarity |-> 100 - rows[j].dist[1]]] >>

\* The route's mapping of what search_similar raised to the HTTP status.
StatusOf(raised) ==
    IF raised = None THEN 200 ELSE IF raised = "ValueError" THEN 400 ELSE 500

\* except Exception in search_similar: logger.error(...); return []
OnStoreFailure(kind) == [result |-> << >>, raised |-> None]

SearchDone(products, raised) ==
    /\ srPc' = "done"
    /\ srResult' = products
    /\ srRaised' = raised
    /\ srStatus' = StatusOf(raised)

\* target_embedding = request.embedding; without one, the CLIP service is
\* obtained and the kind of encoding chosen, or ValueError raised.
SearchResolve ==
    /\ srPc = "request"
    /\ LET request == srRequest[1]
       IN  IF TruthyList(request.embedding)
               THEN /\ srTarget' = request.embedding
                    /\ srPc' = "query"
                    /\ UNCHANGED << srResult, srRaised, srStatus, srLog >>
               ELSE /\ srLog' = Append(srLog, "get_clip_service")
                    /\ IF Resolve(request) = "invalid"
                           THEN SearchDone(<< >>, "ValueError") /\ UNCHANGED srTarget
                           ELSE /\ srPc' = Resolve(request)
                                /\ UNCHANGED << srTarget, srResult, srRaised, srStatus >>
    /\ UNCHANGED << srRequest, srTable, notSearch >>

\* await clip.encode_image(...) or clip.encode_text(...): a vector, or the
\* encoder's exception, which search_similar does not catch.
SearchEncode ==
    /\ srPc \in {"encode_image", "encode_text"}
    /\ srLog' = Append(srLog, srPc)
    /\ \E ok \in BOOLEAN :
          IF ok THEN /\ srTarget' = << << 1 >> >>
                     /\ srPc' = "query"
                     /\ UNCHANGED << srResult, srRaised, srStatus >>
                ELSE SearchDone(<< >>, "EncoderError") /\ UNCHANGED srTarget
    /\ UNCHANGED << srRequest, srTable, notSearch >>

\* self.db_service.connect(), then the try block: the query is built,
\* executed, its rows fetched and converted; except Exception returns [].
SearchQuery ==
    /\ srPc = "query"
    /\ \E connected, executed \in BOOLEAN :
       \E rows \in FetchAll(srTable, srRequest[1]) :
          IF ~connected
              THEN /\ srLog' = Append(srLog, "connect")
                   /\ SearchDone(<< >>, "ConnectError")
          ELSE IF ~executed
              THEN /\ srLog' = srLog \o << "connect", "execute", "execute failed" >>
                   /\ SearchDone(OnStoreFailure("StoreError").result,
                                 OnStoreFailure("StoreError").raised)
          ELSE IF ToProductSimilarity(rows) = << >>
              THEN /\ srLog' = srLog \o << "connect", "execute", "row not converted" >>
                   /\ SearchDone(OnStoreFailure("TypeError").result,
                                 OnStoreFailure("TypeError").raised)
          ELSE /\ srLog' = srLog \o << "connect", "execute" >>
               /\ SearchDone(ToProductSimilarity(rows)[1], None)
    /\ UNCHANGED << srRequest, srTable, srTarget, notSearch >>

InitSearch ==
    /\ IdleEmbed
    /\ IdleCursor
    /\ IdleSingleton
    /\ IdleRetry
    /\ IdleFallback
    /\ IdleParse
    /\ IdlePlanKey
    /\ IdlePlan
    /\ IdleScore
    /\ IdleCoherence
    /\ IdleClip
    /\ IdleAesthetic
    /\ \E request \in SearchRequests : srRequest = << request >>
    /\ srTable \in Tables
    /\ srPc = "request"
    /\ srTarget = << >>
    /\ srResult = << >>
    /\ srRaised = None
    /\ srStatus = 0
    /\ srLog = << >>

NextSearch == SearchResolve \/ SearchEncode \/ SearchQuery

SpecSearch == InitSearch /\ [][NextSearch]_vars

(***************************************************************************)
(* Similarity search: properties                                           *)
(***************************************************************************)
Searching == srRequest # << >>

NoCriteria ==
    /\ srRequest[1].text = << >>
    /\ srRequest[1].image_url = << >>
    /\ srRequest[1].embedding = << >>

Logged(event) == \E i \in 1..Len(srLog) : srLog[i] = event

\* C18: a search request with none of text, image reference and embedding
\* ends with ValueError (status 400) without any encoder call, connection or
\* query, and is handled once: nothing is retried.
C18_SearchPrecondition ==
    (Searching /\ NoCriteria) =>
        /\ srPc \in {"request", "done"}
        /\ \A e \in {"encode_image", "encode_text", "connect", "execute"} : ~Logged(e)
        /\ srPc = "done" =>
              /\ srRaised = "ValueError"
              /\ srStatus = 400
              /\ srResult = << >>
              /\ srLog = << "get_clip_service" >>

C18_Witness ==
    /\ Searching
    /\ NoCriteria
    /\ srPc = "done"
    /\ srRaised = "ValueError"
    /\ srStatus = 400
    /\ srRequest[1].category = << "top" >>
    /\ Len(srTable) > 0

\* The row of the products table a returned product was built from
RowOf(id) == CHOOSE i \in 1..Len(srTable) : srTable[i].id = id

Returned ==
    /\ Searching
    /\ srPc = "done"
    /\ srRaised = None
    /\ TruthyList(srRequest[1].embedding)

Ordered ==
    \A j, k \in 1..Len(srResult) :
        j < k => srResult[j].similarity >= srResult[k].similarity

IsSimilarity ==
    \A j \in 1..Len(srResult) :
        /\ \E i \in 1..Len(srTable) : srTable[i].id = srResult[j].id
        /\ srTable[RowOf(srResult[j].id)].dist # << >>
        /\ srResult[j].similarity = 100 - srTable[RowOf(srResult[j].id)].dist[1]

PricesHold ==
    \A j \in 1..Len(srResult) :
        /\ srRequest[1].min_price # << >> => srResult[j].price >= srRequest[1].min_price[1]
        /\ srRequest[1].max_price # << >> => srResult[j].price <= srRequest[1].max_price[1]

\* C19 as stated: with a supplied embedding, every returned product
\* satisfies every filter the request carries (a filter is absent when it is
\* None), results are in non-increasing similarity = 1 - distance, and there
\* are at most limit of them.
C19_Original ==
    Returned =>
        /\ \A j \in 1..Len(srResult) :
              srRequest[1].category # << >> =>
                  srTable[RowOf(srResult[j].id)].category = srRequest[1].category[1]
        /\ PricesHold
        /\ Ordered
        /\ IsSimilarity
        /\ Len(srResult) <= srRequest[1].limit

\* C19 (amended): as C19, where the category filter is present only when it
\* is a non-empty string, while a price bound is present whenever it is not
\* None (0 included).
C19_ResultShape ==
    Returned =>
        /\ \A j \in 1..Len(srResult) :
              (srRequest[1].category # << >> /\ srRequest[1].category[1] # "") =>
                  srTable[RowOf(srResult[j].id)].category = srRequest[1].category[1]
        /\ PricesHold
        /\ Ordered
        /\ IsSimilarity
        /\ Len(srResult) <= srRequest[1].limit

C19_Witness ==
    /\ Returned
    /\ srRequest[1].category = << "top" >>
    /\ srRequest[1].min_price = << 0 >>
    /\ srRequest[1].max_price = << 1500 >>
    /\ srRequest[1].limit = 2
    /\ Len(srTable) = 4
    /\ Len(srResult) = 2
    /\ srResult[1].id = "A"
    /\ srResult[1].similarity = 70
    /\ srResult[2].id = "D"
    /\ srResult[2].similarity = 50

\* C20: when the store fails while executing the search query, or a returned
\* row cannot be converted, search_similar raises to its caller: the search
\* never ends without an error after such a failure.
C20_SearchErrorPropagation ==
    (Searching /\ srPc = "done" /\ (Logged("execute failed") \/ Logged("row not converted")))
        => srRaised # None

\* The encoder calls of the search so far
EncoderCalls ==
    SelectSeq(srLog, LAMBDA e : e \in {"encode_image", "encode_text"})

\* C33: a request that supplies an embedding (a non-empty list) has it used
\* as the query vector and no encoder call, whatever text or image reference
\* it also carries; without one, a search that reaches its query made
\* exactly one encoder call, on the image reference when there is one (a
\* non-empty string) and otherwise on the text.
C33_ResolutionOrder ==
    Searching =>
        LET request == srRequest[1]
        IN  /\ TruthyList(request.embedding) =>
                  /\ EncoderCalls = << >>
                  /\ ~Logged("get_clip_service")
                  /\ srPc \in {"query", "done"} => srTarget = request.embedding
            /\ (~TruthyList(request.embedding) /\ (srPc = "query" \/ Logged("connect"))) =>
                  EncoderCalls = IF Truthy(request.image_url)
                                     THEN << "encode_image" >>
                                     ELSE << "encode_text" >>
            /\ Logged("encode_text") => Truthy(request.text)
            /\ Len(EncoderCalls) <= 1

C33_Witness ==
    /\ Searching
    /\ srRequest[1].embedding = << >>
    /\ srRequest[1].image_url = << "u" >>
    /\ srRequest[1].text = << "t" >>
    /\ srPc = "done"
    /\ srLog = << "get_clip_service", "encode_image", "connect", "execute" >>
    /\ Len(srResult) = 2

\* The matching rows that have an image embedding
WithEmbedding ==
    { i \in 1..Len(srTable) :
        Where(srTable[i], srRequest[1]) /\ srTable[i].dist # << >> }

\* C32: a search whose query was executed returns the matching products
\* that have an image embedding, the nearest first, up to limit; a matching
\* product without an embedding neither appears nor makes others drop out.
C32_AbsentEmbeddingsIgnored ==
    (Searching /\ srPc = "done" /\ Logged("execute") /\ ~Logged("execute failed")) =>
        /\ Len(srResult) = IF Cardinality(WithEmbedding) < srRequest[1].limit
                               THEN Cardinality(WithEmbedding)
                               ELSE srRequest[1].limit
        /\ \A j \in 1..Len(srResult) : RowOf(srResult[j].id) \in WithEmbedding
        /\ Ordered
        /\ \A i \in WithEmbedding :
               (\A j \in 1..Len(srResult) : srResult[j].id # srTable[i].id)
                   => \A j \in 1..Len(srResult) :
                          srResult[j].similarity >= 100 - srTable[i].dist[1]

(***************************************************************************)
(* similarity_service.py: SimilarityService.calculate_coherence            *)
(* An embedding is a sequence of integers whose Euclidean norm is an       *)
(* integer, so that norms, dot products and means are exact rationals; a   *)
(* float is FNum(n, d) in lowest terms or FNaN.                            *)
(***************************************************************************)
\* Largest number of embeddings in one calculate_coherence call.
MaxEmbeddings == 3

RECURSIVE GCD(_, _)
GCD(a, b) == IF b = 0 THEN a ELSE GCD(b, a % b)

Abs(n) == IF n < 0 THEN -n ELSE n

\* n / d as a float, in lowest terms with a positive denominator (d # 0)
Frac(n, d) ==
    LET g == GCD(Abs(n), Abs(d))
        sgn == IF d < 0 THEN -1 ELSE 1
    IN  FNum(sgn * (n \div g), sgn * (d \div g))

FAdd(a, b) ==
    IF a.type = "nan" \/ b.type = "nan" THEN FNaN
    ELSE Frac(a.num * b.den + b.num * a.den, a.den * b.den)

FMul(a, b) ==
    IF a.type = "nan" \/ b.type = "nan" THEN FNaN
    ELSE Frac(a.num * b.num, a.den * b.den)

\* a / b of two floats, b a non-zero number
FDiv(a, b) == IF a.type = "nan" THEN FNaN ELSE Frac(a.num * b.den, a.den * b.num)

CoherenceVectors ==
    { << 1, 0 >>, << 0, 1 >>, << 3, 4 >>, << -1, 0 >>, << 0, 0 >>,
      << 1, 0, 0 >>, << 0, 1, 0 >>, << >> }

RECURSIVE SumSq(_)
SumSq(e) == IF e = << >> THEN 0 ELSE Head(e) * Head(e) + SumSq(Tail(e))

\* np.linalg.norm(e), for a vector whose norm is an integer
Norm(e) == CHOOSE n \in 0..SumSq(e) : n * n = SumSq(e)

\* e / np.linalg.norm(e): division by a zero norm gives nan elements (numpy
\* warns and does not raise)
Renormalize(e) ==
    [i \in 1..Len(e) |-> IF Norm(e) = 0 THEN FNaN ELSE Frac(e[i], Norm(e))]

\* np.dot(a, b) of two 1-d arrays of one length
RECURSIVE np_dot(_, _)
np_dot(a, b) ==
    IF a = << >> THEN FNum(0, 1)
    ELSE FAdd(FMul(Head(a), Head(b)), np_dot(Tail(a), Tail(b)))

\* The pairs (i, j), i < j, of the double loop
Pairs(n) == { p \in (1..n) \X (1..n) : p[1] < p[2] }

RECURSIVE FSum(_, _)
FSum(f, S) ==
    IF S = {} THEN FNum(0, 1)
    ELSE LET x == CHOOSE y \in S : TRUE IN FAdd(f[x], FSum(f, S \ {x}))

\* float(np.mean(similarities)); the mean of no value is nan
np_mean(embs) ==
    LET sims == [p \in Pairs(Len(embs)) |-> np_dot(embs[p[1]], embs[p[2]])]
    IN  IF Pairs(Len(embs)) = {} THEN FNaN
        ELSE IF FSum(sims, Pairs(Len(embs))).type = "nan" THEN FNaN
        ELSE FDiv(FSum(sims, Pairs(Len(embs))), FNum(Cardinality(Pairs(Len(embs))), 1))

\* if avg_sim < 0.6: avg_sim = avg_sim * (avg_sim / 0.6)
Penalize_none(avg_sim) == avg_sim

Penalize(avg_sim) ==
    IF FloatLess(avg_sim, FNum(3, 5))
        THEN FMul(avg_sim, FDiv(avg_sim, FNum(3, 5)))
        ELSE avg_sim

\* max(0.0, min(1.0, avg_sim)): a comparison with nan is false, so that
\* min(1.0, nan) is 1.0
Clamp01(avg_sim) ==
    LET m == IF FloatLess(avg_sim, FNum(1, 1)) THEN avg_sim ELSE FNum(1, 1)
    IN  IF FloatLess(FNum(0, 1), m) THEN m ELSE FNum(0, 1)

\* if len(embeddings) < 2: return 1.0
TrivialCoherence_half == FNum(1, 2)

TrivialCoherence == FNum(1, 1)

calculate_coherence(embeddings) ==
    IF Len(embeddings) < 2 THEN TrivialCoherence
    ELSE IF \E p \in Pairs(Len(embeddings)) :
                Len(embeddings[p[1]]) # Len(embeddings[p[2]])
        THEN FNum(1, 2)   \* np.dot raises ValueError: except, return 0.5
    ELSE LET embs == [i \in 1..Len(embeddings) |-> Renormalize(embeddings[i])]
         IN  Clamp01(Penalize(np_mean(embs)))

Coherence ==
    /\ chScore = << >>
    /\ chScore' = << calculate_coherence(chEmbeddings) >>
    /\ UNCHANGED << chEmbeddings, notCoherence >>

EmbeddingLists ==
    UNION { [1..n -> CoherenceVectors] : n \in 0..MaxEmbeddings }

InitCoherence ==
    /\ IdleEmbed
    /\ IdleCursor
    /\ IdleSingleton
    /\ IdleRetry
    /\ IdleFallback
    /\ IdleParse
    /\ IdlePlanKey
    /\ IdlePlan
    /\ IdleScore
    /\ IdleSearch
    /\ IdleClip
    /\ IdleAesthetic
    /\ chEmbeddings \in EmbeddingLists
    /\ chScore = << >>

NextCoherence == Coherence

SpecCoherence == InitCoherence /\ [][NextCoherence]_vars

(***************************************************************************)
(* Coherence: properties                                                   *)
(***************************************************************************)
\* C21: calculate_coherence returns exactly 1.0 for every list of 0 or 1
\* embeddings, whatever the embedding holds (a zero or empty vector too).
C21_CoherenceTrivial ==
    (chScore # << >> /\ Len(chEmbeddings) <= 1) => chScore[1] = FNum(1, 1)

C21_Witness ==
    /\ chScore = << FNum(1, 1) >>
    /\ chEmbeddings = << << 0, 0 >> >>

\* The cosine similarity of two non-zero vectors of one length, from the
\* definition: a.b / (|a| |b|)
RECURSIVE IntDot(_, _)
IntDot(a, b) ==
    IF a = << >> THEN 0 ELSE Head(a) * Head(b) + IntDot(Tail(a), Tail(b))

Cosine(a, b) == Frac(IntDot(a, b), Norm(a) * Norm(b))

MeanCosine ==
    LET cos == [p \in Pairs(Len(chEmbeddings)) |->
                   Cosine(chEmbeddings[p[1]], chEmbeddings[p[2]])]
    IN  FDiv(FSum(cos, Pairs(Len(chEmbeddings))),
             FNum(Cardinality(Pairs(Len(chEmbeddings))), 1))

\* Every embedding is non-zero and all have one length
Comparable ==
    /\ \A i \in 1..Len(chEmbeddings) : SumSq(chEmbeddings[i]) # 0
    /\ \A i, j \in 1..Len(chEmbeddings) : Len(chEmbeddings[i]) = Len(chEmbeddings[j])

InUnitInterval(x) ==
    x.type = "num" /\ 0 <= x.num /\ x.num <= x.den

\* p(m) = m * (m / 0.6) if m < 0.6 else m, then the clamp to [0, 1]
Expected(m) ==
    LET p == IF m.num * 5 < 3 * m.den THEN Frac(m.num * m.num * 5, m.den * m.den * 3)
             ELSE m
    IN  IF p.num < 0 THEN FNum(0, 1) ELSE IF p.num > p.den THEN FNum(1, 1) ELSE p

MeanCosineOf(embeddings) ==
    LET cos == [p \in Pairs(Len(embeddings)) |->
                   Cosine(embeddings[p[1]], embeddings[p[2]])]
    IN  FDiv(FSum(cos, Pairs(Len(embeddings))),
             FNum(Cardinality(Pairs(Len(embeddings))), 1))

ComparableList(embeddings) ==
    /\ Len(embeddings) >= 2
    /\ \A i \in 1..Len(embeddings) : SumSq(embeddings[i]) # 0
    /\ \A i, j \in 1..Len(embeddings) : Len(embeddings[i]) = Len(embeddings[j])

\* max(m, 0)
MaxZero(m) == IF m.num < 0 THEN FNum(0, 1) ELSE m

\* C31: for n >= 2 the score never rewards a low mean cosine m: it does not
\* exceed max(m, 0) when m < 0.6, it is monotone non-decreasing in m (a list
\* with a smaller mean never scores higher), and so an anti-correlated set
\* (m < 0) never scores higher than an orthogonal one (m = 0, score 0).
C31_PenaltyNeverRewards ==
    (chScore # << >> /\ ComparableList(chEmbeddings)) =>
        LET m == MeanCosineOf(chEmbeddings)
        IN  /\ (m.num * 5 < 3 * m.den) => ~FloatLess(MaxZero(m), chScore[1])
            /\ (m.num < 0) => ~FloatLess(FNum(0, 1), chScore[1])
            /\ \A other \in EmbeddingLists :
                   (ComparableList(other)
                        /\ FloatLess(MeanCosineOf(other), m))
                       => ~FloatLess(chScore[1], calculate_coherence(other))

(***************************************************************************)
(* Plan cache key: isolation                                              *)
(***************************************************************************)
\* C30: two plan requests that derive the same cache key have the same
\* aesthetic after lower-casing and trimming, the same gender (absent counts
\* as unisex), the same set of categories and the same occasion (absent
\* counts as empty): requests differing in one of the four never share a key.
C30_PlanKeyIsolation ==
    (planB # << >> /\ keyA = keyB) =>
        LET a == planA[1]
            b == planB[1]
        IN  /\ SameAfterLowerTrim(a.aesthetic, b.aesthetic)
            /\ GenderOrUnisex(a.gender) = GenderOrUnisex(b.gender)
            /\ Range(a.categories) = Range(b.categories)
            /\ OccasionOrEmpty(a.occasion) = OccasionOrEmpty(b.occasion)

(***************************************************************************)
(* Concurrent requests with one cache key: what the cache can hold         *)
(***************************************************************************)
\* A step puts a value under parse-cache key k: it is the complete, validated
\* result of a request on that key whose API call succeeded.
ParseWriteValidated(k) ==
    \E r \in DOMAIN reqs :
        /\ reqs[r].pc = "set"
        /\ reqs[r].cache_key = k
        /\ reqs[r].failure = "none"
        /\ reqs[r].api_calls = 1
        /\ redis'[k].value = model_dump_json(reqs[r].parsed[1])
        /\ ValidParsedPrompt(json_loads(redis'[k].value))
        /\ reqs'[r].source = "api"

PlanWriteValidated(k) ==
    \E r \in DOMAIN plans :
        /\ plans[r].pc = "set"
        /\ plans[r].cache_key = k
        /\ plans[r].failure = "none"
        /\ plans[r].api_calls = 1
        /\ plan_redis'[k].value = json_dumps(plans[r].plan[1])
        /\ "items" \in DOMAIN json_loads(plan_redis'[k].value)
        /\ "reasoning" \in DOMAIN json_loads(plan_redis'[k].value)
        /\ plans[r].api_count # << >>
        /\ 2 <= plans[r].api_count[1] /\ plans[r].api_count[1] <= 4
        /\ plans'[r].source = "api"

WritesAreValidated ==
    /\ \A k \in DOMAIN redis' :
          (k \notin DOMAIN redis \/ redis'[k].value # redis[k].value)
              => ParseWriteValidated(k)
    /\ \A k \in DOMAIN plan_redis' :
          (k \notin DOMAIN plan_redis \/ plan_redis'[k].value # plan_redis[k].value)
              => PlanWriteValidated(k)

\* C28: under every interleaving of concurrent parse_prompt or plan_outfit
\* requests with one key, each value that a step puts under the key is the
\* complete result that passed validation in one of these requests, never a
\* fallback result and never an unvalidated or partial value.
C28_NoCacheCorruption == [][WritesAreValidated]_vars

\* Two plan requests with one key both missed and both called the API; the
\* first has stored its result and the second is about to overwrite it.
C28_Witness ==
    \E r1, r2 \in DOMAIN plans :
        /\ r1 # r2
        /\ plans[r1].cache_key = plans[r2].cache_key
        /\ plans[r1].pc = "done" /\ plans[r1].source = "api" /\ plans[r1].api_calls = 1
        /\ plans[r2].pc = "set" /\ plans[r2].api_calls = 1
        /\ plans[r1].cache_key \in DOMAIN plan_redis
        /\ plan_redis[plans[r1].cache_key].validated

(***************************************************************************)
(* main.py: lifespan; clip_service.py: CLIPService; embed_service.py:      *)
(* EmbedService.process_batch; db_service.py: the products table           *)
(* The encoder's raw output for an input is a fixed integer vector with an *)
(* integer, non-zero norm; an Optional list is << >> (None) or << list >>. *)
(***************************************************************************)
\* Most model loads attempted in one run of the process.
MaxLoads == 3

ProductIds == << "p1", "p2", "p3" >>

TitleOf(pid) == IF pid = "p1" THEN "t1" ELSE IF pid = "p2" THEN "t2" ELSE "t3"

UrlOf(pid) == IF pid = "p1" THEN "u1" ELSE IF pid = "p2" THEN "u2" ELSE "u3"

\* self.model.encode_text(tokens) / self.model.encode_image(input), one row
RawText(text) ==
    IF text = "t1" THEN << 5, 0 >> ELSE IF text = "t2" THEN << -6, -8 >> ELSE << 0, -2 >>

RawImage(url) ==
    IF url = "u1" THEN << 3, 4 >> ELSE IF url = "u2" THEN << 0, 5 >> ELSE << -4, 3 >>

\* features /= features.norm(dim=-1, keepdim=True), one row
Normalize_raw(v) == [i \in 1..Len(v) |-> Frac(v[i], 1)]

Normalize(v) == [i \in 1..Len(v) |-> Frac(v[i], Norm(v))]

\* The images list of encode_batch: one entry per url whose fetch and decode
\* succeeded, in request order; a failure is logged and the url skipped
RECURSIVE Fetched_abort(_, _)
Fetched_abort(image_urls, ok) ==
    IF image_urls = << >> \/ ~Head(ok) THEN << >>
    ELSE << Head(image_urls) >> \o Fetched_abort(Tail(image_urls), Tail(ok))

RECURSIVE Fetched(_, _)
Fetched(image_urls, ok) ==
    IF image_urls = << >> THEN << >>
    ELSE (IF Head(ok) THEN << Head(image_urls) >> ELSE << >>)
            \o Fetched(Tail(image_urls), Tail(ok))

\* CLIPService.encode_batch once the model is there: (text_embeddings,
\* image_embeddings), each None or a list
encode_batch(texts, image_urls, ok) ==
    LET images == Fetched(image_urls, ok)
    IN  [text_embeddings |->
             IF texts = << >> THEN << >>
             ELSE << [i \in 1..Len(texts) |-> Normalize(RawText(texts[i]))] >>,
         image_embeddings |->
             IF image_urls = << >> \/ images = << >> THEN << >>
             ELSE << [i \in 1..Len(images) |-> Normalize(RawImage(images[i]))] >>]

\* One call of the CLIP service, as its caller sees it
ClipCall(op, texts, image_urls, ok, error, text_embeddings, image_embeddings) ==
    [op |-> op, texts |-> texts, image_urls |-> image_urls, ok |-> ok,
     error |-> error, text_embeddings |-> text_embeddings,
     image_embeddings |-> image_embeddings]

\* if not self.model: self.load_model() at the head of an encode call
NeedsLoad == clModel = None

\* load_model() happened with the given outcome
Loaded(at, ok) ==
    /\ clLoads' = Append(clLoads, [at |-> at, ok |-> ok])
    /\ clModel' = IF ok THEN "model" ELSE None

\* lifespan, up to its yield: the CLIP service is created and load_model()
\* called; a failure is logged and the service starts without a model.
Startup ==
    /\ clPhase = "boot"
    /\ clPhase' = "serving"
    /\ \E ok \in BOOLEAN : Loaded("startup", ok)
    /\ UNCHANGED << clCalls, dbProducts, ebRuns, notClip >>

\* encode_text(text): load if there is no model (RuntimeError on failure),
\* encode, normalize; an encoding error is logged and raised again.
EncodeText ==
    /\ clPhase = "serving"
    /\ NeedsLoad => Len(clLoads) < MaxLoads
    /\ \E text \in {"t1", "t2"}, loads, encodes \in BOOLEAN :
          /\ IF NeedsLoad THEN Loaded("encode_text", loads)
                          ELSE UNCHANGED << clLoads, clModel >>
          /\ clCalls' =
                << IF NeedsLoad /\ ~loads
                       THEN ClipCall("encode_text", << text >>, << >>, << >>, "load", << >>, << >>)
                   ELSE IF ~encodes
                       THEN ClipCall("encode_text", << text >>, << >>, << >>, "encode", << >>, << >>)
                   ELSE ClipCall("encode_text", << text >>, << >>, << >>, "none",
                                 << << Normalize(RawText(text)) >> >>, << >>) >>
    /\ UNCHANGED << clPhase, dbProducts, ebRuns, notClip >>

\* encode_image(image_url): load if there is no model, fetch, decode, encode,
\* normalize; a fetch or encoding error is logged and raised again.
EncodeImage ==
    /\ clPhase = "serving"
    /\ NeedsLoad => Len(clLoads) < MaxLoads
    /\ \E url \in {"u1", "u2"}, loads, fetches \in BOOLEAN :
          /\ IF NeedsLoad THEN Loaded("encode_image", loads)
                          ELSE UNCHANGED << clLoads, clModel >>
          /\ clCalls' =
                << IF NeedsLoad /\ ~loads
                       THEN ClipCall("encode_image", << >>, << url >>, << >>, "load", << >>, << >>)
                   ELSE IF ~fetches
                       THEN ClipCall("encode_image", << >>, << url >>, << FALSE >>, "fetch",
                                     << >>, << >>)
                   ELSE ClipCall("encode_image", << >>, << url >>, << TRUE >>, "none",
                                 << >>, << << Normalize(RawImage(url)) >> >>) >>
    /\ UNCHANGED << clPhase, dbProducts, ebRuns, notClip >>

\* encode_batch(texts, image_urls), called on its own: load if there is no
\* model, encode the texts, fetch and encode the images.
EncodeBatch ==
    /\ clPhase = "serving"
    /\ NeedsLoad => Len(clLoads) < MaxLoads
    /\ \E texts \in { << >>, << "t1", "t2" >> },
          image_urls \in { << >>, << "u1", "u2" >>, << "u1", "u2", "u3" >> },
          loads \in BOOLEAN :
       \E ok \in [1..Len(image_urls) -> BOOLEAN] :
          /\ IF NeedsLoad THEN Loaded("encode_batch", loads)
                          ELSE UNCHANGED << clLoads, clModel >>
          /\ clCalls' =
                << IF NeedsLoad /\ ~loads
                       THEN ClipCall("encode_batch", texts, image_urls, << >>, "load",
                                     << >>, << >>)
                       ELSE ClipCall("encode_batch", texts, image_urls, ok, "none",
                                     encode_batch(texts, image_urls, ok).text_embeddings,
                                     encode_batch(texts, image_urls, ok).image_embeddings) >>
    /\ UNCHANGED << clPhase, dbProducts, ebRuns, notClip >>

\* get_pending_products(limit): the first rows with a NULL embedding, [] when
\* the query fails
get_pending_products(limit, fails) ==
    IF fails THEN << >>
    ELSE LET pending == SelectSeq(ProductIds,
                            LAMBDA pid : dbProducts[pid].image_embedding = << >>
                                         \/ dbProducts[pid].text_embedding = << >>)
         IN  SubSeq(pending, 1, IF Len(pending) < limit THEN Len(pending) ELSE limit)

\* Step 4 of process_batch: one (image, text, pid) per index i that is below
\* the length of both embedding lists
UpdateData(product_ids, text_embs, image_embs) ==
    IF text_embs = << >> \/ image_embs = << >> THEN << >>
    ELSE LET kept == { i \in 1..Len(product_ids) :
                          i <= Len(text_embs[1]) /\ i <= Len(image_embs[1]) }
         IN  [i \in 1..Cardinality(kept) |->
                 [image |-> image_embs[1][i], text |-> text_embs[1][i],
                  pid |-> product_ids[i]]]

\* batch_update_embeddings(data): UPDATE products SET both embeddings
batch_update_embeddings(data) ==
    [pid \in DOMAIN dbProducts |->
        IF \E i \in 1..Len(data) : data[i].pid = pid
            THEN LET i == CHOOSE j \in 1..Len(data) : data[j].pid = pid
                 IN  [dbProducts[pid] EXCEPT !.image_embedding = << data[i].image >>,
                                             !.text_embedding = << data[i].text >>]
            ELSE dbProducts[pid]]

BatchRun(pending, ok, update_data, count, error) ==
    [pending |-> pending, ok |-> ok, update_data |-> update_data, count |-> count,
     error |-> error]

\* The image url of a product whose image can never be fetched
DeadUrl == "dead"

\* The ways the fetches of a batch's images can go: a dead url never loads;
\* another url loads, or may fail too when the network is flaky
FetchOutcomes(image_urls, flaky) ==
    { ok \in [1..Len(image_urls) -> BOOLEAN] :
        \A i \in 1..Len(image_urls) :
            /\ ok[i] => image_urls[i] # DeadUrl
            /\ ~flaky => (ok[i] <=> image_urls[i] # DeadUrl) }

\* process_batch(batch_size): pending products, encode_batch over their
\* titles and image urls, update data, batch update, count.
process_batch(batch_size, select_fails, update_fails, loads, flaky) ==
    \E pending \in { get_pending_products(batch_size, select_fails) } :
    \E titles \in { [i \in 1..Len(pending) |-> dbProducts[pending[i]].title] } :
    \E image_urls \in { [i \in 1..Len(pending) |-> dbProducts[pending[i]].image_url] } :
        IF pending = << >>
            THEN /\ ebRuns' = << BatchRun(<< >>, << >>, << >>, 0, "none") >>
                 /\ UNCHANGED << clLoads, clModel, clCalls, dbProducts >>
        ELSE IF NeedsLoad /\ ~loads
            THEN /\ Loaded("encode_batch", FALSE)
                 /\ clCalls' = << ClipCall("encode_batch", titles, image_urls, << >>,
                                           "load", << >>, << >>) >>
                 /\ ebRuns' = << BatchRun(pending, << >>, << >>, 0, "load") >>
                 /\ UNCHANGED dbProducts
        ELSE \E ok \in FetchOutcomes(image_urls, flaky) :
             \E embs \in { encode_batch(titles, image_urls, ok) } :
             \E update_data \in { UpdateData(pending, embs.text_embeddings,
                                              embs.image_embeddings) } :
                 /\ IF NeedsLoad THEN Loaded("encode_batch", TRUE)
                                 ELSE UNCHANGED << clLoads, clModel >>
                 /\ clCalls' = << ClipCall("encode_batch", titles, image_urls, ok, "none",
                                           embs.text_embeddings, embs.image_embeddings) >>
                 /\ IF update_data # << >> /\ update_fails
                        THEN /\ ebRuns' = << BatchRun(pending, ok, update_data, 0, "update") >>
                             /\ UNCHANGED dbProducts
                        ELSE /\ ebRuns' = << BatchRun(pending, ok, update_data,
                                                     Len(update_data), "none") >>
                             /\ dbProducts' = batch_update_embeddings(update_data)

\* One background run of process_batch, of any batch size.
ProcessBatch ==
    /\ clPhase = "serving"
    /\ NeedsLoad => Len(clLoads) < MaxLoads
    /\ \E batch_size \in 1..Len(ProductIds), select_fails, update_fails, loads \in BOOLEAN :
          process_batch(batch_size, select_fails, update_fails, loads, TRUE)
    /\ UNCHANGED << clPhase, notClip >>

InitClip ==
    /\ IdleCursor
    /\ IdleSingleton
    /\ IdleRetry
    /\ IdleFallback
    /\ IdleParse
    /\ IdlePlanKey
    /\ IdlePlan
    /\ IdleScore
    /\ IdleSearch
    /\ IdleCoherence
    /\ IdleAesthetic
    /\ clPhase = "boot"
    /\ clModel = None
    /\ clLoads = << >>
    /\ clCalls = << >>
    /\ dbProducts = [pid \in Range(ProductIds) |->
                        [title |-> TitleOf(pid), image_url |-> UrlOf(pid),
                         image_embedding |-> << >>, text_embedding |-> << >>]]
    /\ ebRuns = << >>
    /\ ebBatchSize = 0
    /\ ppRun = << >>

NextClip == Startup \/ EncodeText \/ EncodeImage \/ EncodeBatch

SpecClip == InitClip /\ [][NextClip]_vars

NextEmbed == Startup \/ ProcessBatch

SpecEmbed == InitClip /\ [][NextEmbed]_vars

(***************************************************************************)
(* embed_service.py: EmbedService.process_product, queued by routes/embed.py *)
(* generate_embedding; db_service.py: update_product_embeddings            *)
(***************************************************************************)
\* update_product_embeddings(product_id, image_embedding, text_embedding):
\* one UPDATE that sets the columns whose embedding is not empty; a list is
\* << >> when empty (or None)
update_product_embeddings(product_id, image_embedding, text_embedding) ==
    IF image_embedding = << >> /\ text_embedding = << >> THEN dbProducts
    ELSE [dbProducts EXCEPT ![product_id] =
             [@ EXCEPT !.image_embedding =
                           IF image_embedding # << >> THEN << image_embedding >> ELSE @,
                       !.text_embedding =
                           IF text_embedding # << >> THEN << text_embedding >> ELSE @]]

\* The try block of process_product: the table it leaves and what it raises
process_product_text_first(product_id, title, image_url, text_ok, image_ok, update_ok) ==
    IF ~text_ok THEN [products |-> dbProducts, raised |-> "encode_text"]
    ELSE IF ~image_ok
        THEN [products |-> update_product_embeddings(product_id, << >>,
                                                     Normalize(RawText(title))),
              raised |-> "encode_image"]
    ELSE IF ~update_ok THEN [products |-> dbProducts, raised |-> "update"]
    ELSE [products |-> update_product_embeddings(product_id,
                                                 Normalize(RawImage(image_url)),
                                                 Normalize(RawText(title))),
          raised |-> None]

process_product(product_id, title, image_url, text_ok, image_ok, update_ok) ==
    IF ~text_ok THEN [products |-> dbProducts, raised |-> "encode_text"]
    ELSE IF ~image_ok THEN [products |-> dbProducts, raised |-> "encode_image"]
    ELSE IF ~update_ok THEN [products |-> dbProducts, raised |-> "update"]
    ELSE [products |-> update_product_embeddings(product_id,
                                                 Normalize(RawImage(image_url)),
                                                 Normalize(RawText(title))),
          raised |-> None]

\* One run of process_product, as the background runner sees it
ProductRun(product_id, title, image_url, raised, before) ==
    [product_id |-> product_id, title |-> title, image_url |-> image_url,
     raised |-> raised, before |-> before]

\* process_product(product_id, request.text or "unnamed",
\* request.image_url or ""): encode_text loads the model when there is none;
\* the empty url cannot be fetched.
ProcessProduct ==
    /\ clPhase = "serving"
    /\ NeedsLoad => Len(clLoads) < MaxLoads
    /\ \E i \in 1..Len(ProductIds), named, with_image, loads, text_ok, image_ok,
              update_ok \in BOOLEAN :
          LET product_id == ProductIds[i]
              title == IF named THEN TitleOf(product_id) ELSE "unnamed"
              image_url == IF with_image THEN UrlOf(product_id) ELSE ""
              run == process_product(product_id, title, image_url, text_ok,
                                     image_ok /\ image_url # "", update_ok)
          IN  IF NeedsLoad /\ ~loads
                  THEN /\ Loaded("encode_text", FALSE)
                       /\ ppRun' = << ProductRun(product_id, title, image_url, "load",
                                                 dbProducts) >>
                       /\ UNCHANGED dbProducts
                  ELSE /\ IF NeedsLoad THEN Loaded("encode_text", TRUE)
                                       ELSE UNCHANGED << clLoads, clModel >>
                       /\ ppRun' = << ProductRun(product_id, title, image_url,
                                                 run.raised, dbProducts) >>
                       /\ dbProducts' = run.products
    /\ UNCHANGED << clPhase, clCalls, ebRuns, ebBatchSize, notEmbed >>

NextProduct == Startup \/ ProcessProduct

SpecProduct == InitClip /\ [][NextProduct]_vars

\* C39: process_product is all-or-nothing: a run that raised (an encoding or
\* the update failed) left every stored embedding as it was; a run that did
\* not raise set both embeddings of its product, to the embeddings of the
\* title and image it was given, and changed no other product.
C39_ProcessProductAllOrNothing ==
    ppRun # << >> =>
        LET run == ppRun[1]
        IN  /\ run.raised # None => dbProducts = run.before
            /\ run.raised = None =>
                  /\ dbProducts[run.product_id].text_embedding
                         = << Normalize(RawText(run.title)) >>
                  /\ dbProducts[run.product_id].image_embedding
                         = << Normalize(RawImage(run.image_url)) >>
                  /\ \A pid \in DOMAIN dbProducts :
                         pid # run.product_id => dbProducts[pid] = run.before[pid]

\* The image could not be fetched after the title was encoded: nothing stored
C39_Witness ==
    /\ ppRun # << >>
    /\ ppRun[1].product_id = "p2"
    /\ ppRun[1].raised = "encode_image"
    /\ ppRun[1].image_url = "u2"
    /\ dbProducts["p2"].text_embedding = << >>
    /\ dbProducts["p1"].text_embedding # << >>
    /\ dbProducts["p1"].image_embedding # << >>

(***************************************************************************)
(* The backlog sweep: process_batch run again and again with one batch     *)
(* size, on a table where some images can never be fetched. The store and  *)
(* the model load work, so that a product can only be held back by the     *)
(* images of other products.                                               *)
(***************************************************************************)
\* A row of the products table: waiting with a good image, waiting with a
\* dead one, or holding its embeddings already
ProductRows(pid) ==
    { [title |-> TitleOf(pid), image_url |-> UrlOf(pid),
       image_embedding |-> << >>, text_embedding |-> << >>],
      [title |-> TitleOf(pid), image_url |-> DeadUrl,
       image_embedding |-> << >>, text_embedding |-> << >>],
      [title |-> TitleOf(pid), image_url |-> UrlOf(pid),
       image_embedding |-> << Normalize(RawImage(UrlOf(pid))) >>,
       text_embedding |-> << Normalize(RawText(TitleOf(pid))) >>] }

\* One run of the sweep: process_batch(batch_size) with the fixed size
Sweep ==
    /\ clPhase = "serving"
    /\ NeedsLoad => Len(clLoads) < MaxLoads
    /\ process_batch(ebBatchSize, FALSE, FALSE, TRUE, FALSE)
    /\ UNCHANGED << clPhase, ebBatchSize, ppRun, notEmbed >>

InitSweep ==
    /\ IdleRetry
    /\ IdleFallback
    /\ IdleParse
    /\ IdlePlanKey
    /\ IdlePlan
    /\ IdleScore
    /\ IdleSearch
    /\ IdleCoherence
    /\ IdleAesthetic
    /\ IdleCursor
    /\ IdleSingleton
    /\ clPhase = "boot"
    /\ clModel = None
    /\ clLoads = << >>
    /\ clCalls = << >>
    /\ dbProducts \in [Range(ProductIds) -> UNION { ProductRows(pid) : pid \in Range(ProductIds) }]
    /\ \A pid \in Range(ProductIds) : dbProducts[pid] \in ProductRows(pid)
    /\ ebRuns = << >>
    /\ ebBatchSize \in 1..Len(ProductIds)
    /\ ppRun = << >>

NextSweep == Startup \/ Sweep

\* The service starts, and the sweep is triggered again and again.
SpecSweep == InitSweep /\ [][NextSweep]_vars /\ WF_vars(Startup) /\ WF_vars(Sweep)

Pending(pid) ==
    dbProducts[pid].image_embedding = << >> \/ dbProducts[pid].text_embedding = << >>

Fetchable(pid) == dbProducts[pid].image_url # DeadUrl

\* C36: when process_batch runs again and again with one batch size, every
\* pending product whose image can be fetched eventually holds both
\* embeddings, whatever other pending products have images that never load.
C36_SweepProgress ==
    \A pid \in Range(ProductIds) :
        (Pending(pid) /\ Fetchable(pid)) ~> ~Pending(pid)

(***************************************************************************)
(* CLIP service and embedding sweep: properties                            *)
(***************************************************************************)
LastCall(op) == clCalls # << >> /\ clCalls[1].op = op

\* The url of the j-th image whose fetch succeeded
NthFetched(call, j) ==
    call.image_urls[CHOOSE i \in 1..Len(call.image_urls) :
                        /\ call.ok[i]
                        /\ Cardinality({ k \in 1..i : call.ok[k] }) = j]

Successes(call) == { i \in 1..Len(call.image_urls) : call.ok[i] }

\* C23: an encode_batch call whose model is loaded never raises when images
\* fail to fetch or decode; it returns the embeddings of exactly the fetched
\* images, in request order, and no image list when none was fetched.
C23_BatchEncodeIsolation ==
    LastCall("encode_batch") =>
        LET call == clCalls[1]
        IN  /\ call.error \in {"none", "load"}
            /\ call.error = "load" => clModel = None
            /\ call.error = "none" =>
                  /\ Len(call.ok) = Len(call.image_urls)
                  /\ Successes(call) = {} <=> call.image_embeddings = << >>
                  /\ call.image_embeddings # << >> =>
                        /\ Len(call.image_embeddings[1]) = Cardinality(Successes(call))
                        /\ \A j \in 1..Len(call.image_embeddings[1]) :
                              call.image_embeddings[1][j]
                                  = Normalize(RawImage(NthFetched(call, j)))

C23_Witness ==
    /\ LastCall("encode_batch")
    /\ clCalls[1].error = "none"
    /\ clCalls[1].image_urls = << "u1", "u2", "u3" >>
    /\ clCalls[1].ok = << FALSE, TRUE, TRUE >>
    /\ Len(clCalls[1].image_embeddings[1]) = 2
    /\ clCalls[1].image_embeddings[1][1] = << FNum(0, 1), FNum(1, 1) >>

\* C26: the model is not loaded at process start but by the first encode
\* call; a load failure is an error of that call, never of the startup; after
\* a successful load no load happens again.
C26_LazyLoad ==
    /\ \A i \in 1..Len(clLoads) : clLoads[i].at # "startup"
    /\ clPhase = "boot" => clLoads = << >>
    /\ \A i, j \in 1..Len(clLoads) : i < j => ~clLoads[i].ok
    /\ (clCalls # << >> /\ clCalls[1].error = "load") =>
          (clModel = None /\ ~clLoads[Len(clLoads)].ok)

RECURSIVE SquaredNorm(_)
SquaredNorm(v) ==
    IF v = << >> THEN FNum(0, 1)
    ELSE FAdd(FMul(Head(v), Head(v)), SquaredNorm(Tail(v)))

AllUnit(embeddings) ==
    embeddings # << >> =>
        \A i \in 1..Len(embeddings[1]) : SquaredNorm(embeddings[1][i]) = FNum(1, 1)

\* C27: every vector that encode_text, encode_image and encode_batch return
\* has Euclidean norm 1.
C27_NormalizedOutput ==
    clCalls # << >> =>
        /\ AllUnit(clCalls[1].text_embeddings)
        /\ AllUnit(clCalls[1].image_embeddings)
        /\ clCalls[1].error = "none" =>
              (clCalls[1].text_embeddings # << >> \/ clCalls[1].image_embeddings # << >>
                 \/ (clCalls[1].op = "encode_batch"
                       /\ clCalls[1].texts = << >> /\ Successes(clCalls[1]) = {}))

C27_Witness ==
    /\ LastCall("encode_batch")
    /\ clCalls[1].texts = << "t1", "t2" >>
    /\ clCalls[1].text_embeddings = << << << FNum(1, 1), FNum(0, 1) >>,
                                         << FNum(-3, 5), FNum(-4, 5) >> >> >>
    /\ clCalls[1].image_embeddings # << >>
    /\ clCalls[1].image_embeddings[1][1] = << FNum(3, 5), FNum(4, 5) >>

\* C24: in a process_batch run that does not raise, the products updated are
\* exactly those of the batch whose image was fetched, and the returned count
\* is their number.
C24_BatchSweepIsolation ==
    (ebRuns # << >> /\ ebRuns[1].error = "none" /\ ebRuns[1].pending # << >>) =>
        LET run == ebRuns[1]
        IN  /\ { run.update_data[i].pid : i \in 1..Len(run.update_data) }
                  = { run.pending[i] : i \in { k \in 1..Len(run.pending) : run.ok[k] } }
            /\ run.count = Cardinality({ k \in 1..Len(run.pending) : run.ok[k] })

\* C29: every product that holds embeddings holds the text embedding of its
\* own title and the image embedding of its own image.
C29_NoCrossProductEmbeddings ==
    \A pid \in DOMAIN dbProducts :
        /\ dbProducts[pid].text_embedding # << >> =>
              dbProducts[pid].text_embedding = << Normalize(RawText(TitleOf(pid))) >>
        /\ dbProducts[pid].image_embedding # << >> =>
              dbProducts[pid].image_embedding = << Normalize(RawImage(UrlOf(pid))) >>

(***************************************************************************)
(* aesthetic_service.py: AestheticService.find_nearest_aesthetic           *)
(* A Python value carries its type: encode_text returns a list, np.array   *)
(* an ndarray. The precomputed aesthetics are a sequence of (name, vector) *)
(* in the order the keys come back from Redis.                             *)
(***************************************************************************)
\* Most precomputed aesthetics in Redis.
MaxAesthetics == 2

PyList(elems) == [type |-> "list", elems |-> elems]

\* The encoder's raw output for a prompt
RawPrompt(prompt) ==
    IF prompt = "retro" THEN << 3, 4 >> ELSE IF prompt = "gym" THEN << 0, 2 >> ELSE << 5, 0 >>

AestheticVectors ==
    { [name |-> "Vintage", vector |-> Normalize(<< 3, 4 >>)],
      [name |-> "Athleisure", vector |-> Normalize(<< 0, 1 >>)],
      [name |-> "Preppy", vector |-> Normalize(<< 4, 3 >>)] }

AestheticStores ==
    { st \in UNION { [1..n -> AestheticVectors] : n \in 0..MaxAesthetics } :
        \A i, j \in 1..Len(st) : st[i].name = st[j].name => i = j }

\* x / d: defined for an ndarray, TypeError for a list
TrueDiv(x, d) ==
    IF x.type = "list" THEN [raised |-> "TypeError", value |-> x]
    ELSE [raised |-> None,
          value |-> [type |-> "ndarray",
                     elems |-> [i \in 1..Len(x.elems) |-> FDiv(x.elems[i], d)]]]

\* sum(x**2 for x in prompt_emb)**0.5, for a rational square
NormOf(x) ==
    LET sq == SquaredNorm(x.elems)
    IN  Frac(CHOOSE n \in 0..sq.num : n * n = sq.num,
             CHOOSE d \in 1..sq.den : d * d = sq.den)

\* get_all_aesthetics(): {} without a client or when a Redis command raises
get_all_aesthetics(raises) ==
    IF aeClient = None \/ raises THEN << >> ELSE aeStore

\* The loop over aesthetics.items(): best_aesthetic after it, starting from
\* (None, -1.0) and replacing on sim > max_sim
RECURSIVE NearestFrom(_, _, _, _)
NearestFrom(p_v, aesthetics, best_aesthetic, max_sim) ==
    IF aesthetics = << >> THEN best_aesthetic
    ELSE LET sim == np_dot(p_v, Head(aesthetics).vector)
         IN  IF FloatLess(max_sim, sim)
                 THEN NearestFrom(p_v, Tail(aesthetics), Head(aesthetics).name, sim)
                 ELSE NearestFrom(p_v, Tail(aesthetics), best_aesthetic, max_sim)

\* find_nearest_aesthetic(prompt): the label, or None; with the exception
\* that its except clause caught
find_nearest_aesthetic(prompt, encodes, raises) ==
    IF ~encodes THEN [value |-> None, caught |-> "encode_text"]
    ELSE LET prompt_emb == PyList(Normalize(RawPrompt(prompt)))
             divided == TrueDiv(prompt_emb, NormOf(prompt_emb))
             aesthetics == get_all_aesthetics(raises)
         IN  IF divided.raised # None THEN [value |-> None, caught |-> divided.raised]
             ELSE IF aesthetics = << >> THEN [value |-> None, caught |-> None]
             ELSE [value |-> NearestFrom(divided.value.elems, aesthetics, None, FNum(-1, 1)),
                   caught |-> None]

FindNearest ==
    /\ aeResult = << >>
    /\ \E encodes \in BOOLEAN, raises \in Raises(aeClient) :
          aeResult' = << find_nearest_aesthetic(aePrompt, encodes, raises) >>
    /\ UNCHANGED << aeClient, aeStore, aePrompt, notAesthetic >>

InitAesthetic ==
    /\ IdleEmbed
    /\ IdleCursor
    /\ IdleSingleton
    /\ IdleRetry
    /\ IdleFallback
    /\ IdleParse
    /\ IdlePlanKey
    /\ IdlePlan
    /\ IdleScore
    /\ IdleSearch
    /\ IdleCoherence
    /\ IdleClip
    /\ aeClient \in {None, "client", "unreachable"}
    /\ aeStore \in AestheticStores
    /\ aePrompt \in {"retro", "gym", "plain"}
    /\ aeResult = << >>

NextAesthetic == FindNearest

SpecAesthetic == InitAesthetic /\ [][NextAesthetic]_vars

\* The names whose vector has the highest cosine similarity with the prompt
Best(prompt, aesthetics) ==
    { i \in 1..Len(aesthetics) :
        \A j \in 1..Len(aesthetics) :
            ~FloatLess(np_dot(Normalize(RawPrompt(prompt)), aesthetics[i].vector),
                       np_dot(Normalize(RawPrompt(prompt)), aesthetics[j].vector)) }

\* C25: with a reachable store holding at least one aesthetic vector and a
\* prompt that was encoded, find_nearest_aesthetic returns the first label of
\* highest cosine similarity with the prompt; it returns None only when
\* there is no reference vector.
C25_NearestAesthetic ==
    (aeResult # << >> /\ aeClient = "client" /\ aeStore # << >>
        /\ aeResult[1].caught # "encode_text") =>
        \/ aeResult[1].value
              = aeStore[CHOOSE i \in Best(aePrompt, aeStore) :
                            \A j \in Best(aePrompt, aeStore) : i <= j].name
        \/ (aeResult[1].value = None /\ aeResult[1].caught = None)

(***************************************************************************)
(* The service accessors: parse_service.py get_parse_service,              *)
(* plan_service.py get_plan_service, embed_service.py get_embed_service,   *)
(* aesthetic_service.py get_aesthetic_service. Callers are tasks of one    *)
(* event loop: a task runs until an await hands the loop over.             *)
(***************************************************************************)
\* Concurrent first callers of one accessor.
NumCallers == 3

Services == { "parse", "plan", "embed", "aesthetic" }

\* await <service>.initialize() can hand the loop to another task when
\* initialize awaits something outside this code: the Redis client of the
\* parse, plan and aesthetic services. EmbedService.initialize awaits only
\* get_clip_service(), a coroutine with no await of its own.
MaySuspend(service) == service # "embed"

IdleCaller == [pc |-> "idle", instance |-> 0, initialized |-> FALSE]

\* return _service: the caller holds the instance as it is at that moment
Returned_(instance) ==
    [pc |-> "returned", instance |-> instance,
     initialized |-> sgInstance'[instance].initialized]

\* get_*_service() up to its first suspension: if the global is None an
\* instance is constructed and assigned, then initialize() awaited;
\* otherwise the global is returned at once.
GetService ==
    \E c \in 1..NumCallers :
        /\ sgCallers[c].pc = "idle"
        /\ IF sgInstance = << >>
               THEN \E suspends \in { MaySuspend(sgService), FALSE } :
                       IF suspends
                           THEN /\ sgInstance' = << [initialized |-> FALSE] >>
                                /\ sgCallers' = [sgCallers EXCEPT ![c] =
                                                    [pc |-> "initializing", instance |-> 1,
                                                     initialized |-> FALSE]]
                           ELSE /\ sgInstance' = << [initialized |-> TRUE] >>
                                /\ sgCallers' = [sgCallers EXCEPT ![c] = Returned_(1)]
               ELSE /\ sgInstance' = sgInstance
                    /\ sgCallers' = [sgCallers EXCEPT ![c] = Returned_(Len(sgInstance))]
        /\ UNCHANGED << sgService, notSingleton >>

\* initialize() completes and the accessor returns the global
InitializeDone ==
    \E c \in 1..NumCallers :
        /\ sgCallers[c].pc = "initializing"
        /\ sgInstance' = [sgInstance EXCEPT ![sgCallers[c].instance].initialized = TRUE]
        /\ sgCallers' = [sgCallers EXCEPT ![c] = Returned_(Len(sgInstance))]
        /\ UNCHANGED << sgService, notSingleton >>

InitSingleton ==
    /\ IdleRetry
    /\ IdleFallback
    /\ IdleParse
    /\ IdlePlanKey
    /\ IdlePlan
    /\ IdleScore
    /\ IdleSearch
    /\ IdleCoherence
    /\ IdleClip
    /\ IdleAesthetic
    /\ IdleEmbed
    /\ IdleCursor
    /\ sgService \in Services
    /\ sgInstance = << >>
    /\ sgCallers = [c \in 1..NumCallers |-> IdleCaller]

NextSingleton == GetService \/ InitializeDone

SpecSingleton == InitSingleton /\ [][NextSingleton]_vars

NumTasks == 2

\* search_similar without an embedding, search_similar with one,
\* process_batch
TaskKinds == { "search", "search_embedding", "batch" }

Program(kind) ==
    IF kind = "search" THEN << "encode", "execute", "fetchall" >>
    ELSE IF kind = "search_embedding" THEN << "execute", "fetchall" >>
    ELSE << "execute", "fetchall", "encode_batch", "update" >>

\* The statement awaits: the task hands the event loop over. cursor.execute,
\* cursor.fetchall and execute_values are plain calls.
IsAwait_every(op) == TRUE

IsAwait(op) == op \in { "encode", "encode_batch" }

NewTask(kind) == [kind |-> kind, pc |-> 1, executed |-> << >>, fetched |-> << >>]

\* The result set of the query that task t executed
ResultOf(t) == [task |-> t, query |-> cuTasks[t].kind]

\* The next statement of task t runs; t keeps the loop unless the statement
\* awaits or was its last. execute leaves its result set in the shared
\* cursor, fetchall takes what the cursor holds, the UPDATE leaves none.
TaskStep ==
    \E t \in 1..NumTasks :
        /\ cuRunning \in { 0, t }
        /\ cuTasks[t].pc <= Len(Program(cuTasks[t].kind))
        /\ LET op == Program(cuTasks[t].kind)[cuTasks[t].pc]
               last == cuTasks[t].pc = Len(Program(cuTasks[t].kind))
           IN  /\ cuCursor' = IF op = "execute" THEN << ResultOf(t) >>
                              ELSE IF op \in { "fetchall", "update" } THEN << >>
                              ELSE cuCursor
               /\ cuTasks' = [cuTasks EXCEPT ![t] =
                                 [@ EXCEPT !.pc = @ + 1,
                                           !.executed = IF op = "execute"
                                                            THEN << ResultOf(t) >> ELSE @,
                                           !.fetched = IF op = "fetchall"
                                                           THEN << cuCursor >> ELSE @]]
               /\ cuRunning' = IF IsAwait(op) \/ last THEN 0 ELSE t
        /\ UNCHANGED notCursor

InitCursor ==
    /\ IdleRetry
    /\ IdleFallback
    /\ IdleParse
    /\ IdlePlanKey
    /\ IdlePlan
    /\ IdleScore
    /\ IdleSearch
    /\ IdleCoherence
    /\ IdleClip
    /\ IdleAesthetic
    /\ IdleEmbed
    /\ IdleSingleton
    /\ \E kinds \in [1..NumTasks -> TaskKinds] :
           cuTasks = [t \in 1..NumTasks |-> NewTask(kinds[t])]
    /\ cuCursor = << >>
    /\ cuRunning = 0

NextCursor == TaskStep

SpecCursor == InitCursor /\ [][NextCursor]_vars

\* C37: in every interleaving of searches and batch jobs on the shared
\* cursor, the rows a task fetches are the rows of the query that task
\* executed.
C37_SharedCursorSerialization ==
    \A t \in DOMAIN cuTasks :
        cuTasks[t].fetched # << >> =>
            cuTasks[t].fetched = << cuTasks[t].executed >>

\* A search suspended in its encoder call while a batch job queried and
\* fetched; then the search queried and fetched its own rows.
C37_Witness ==
    /\ cuTasks # << >>
    /\ cuTasks[1].kind = "search"
    /\ cuTasks[2].kind = "batch"
    /\ cuTasks[1].fetched = << << [task |-> 1, query |-> "search"] >> >>
    /\ cuTasks[2].fetched = << << [task |-> 2, query |-> "batch"] >> >>
    /\ cuTasks[2].pc = 4
====
